---- MODULE Spec2Model ----
(***************************************************************************)
(* The decorator application algorithm of the decorators proposal, as the  *)
(* README describes it: decorator expressions of a class are evaluated in  *)
(* textual order, element decorators are called and applied, the class     *)
(* decorators are called, static-element initializers run, static fields   *)
(* are executed, class initializers run, and the class is made available.  *)
(* Spec is the class definition step by step; SpecNew is the construction  *)
(* of instances of the defined class and of a subclass; SpecAccess is the  *)
(* access to private elements through context.access and directly;        *)
(* SpecMetadata is the calling of decorators with their context objects    *)
(* and the metadata they define; SpecBuiltins is the applying of built-in  *)
(* decorators of the static decorators outline; SpecNames is the creation  *)
(* and use of Private Names; SpecTwo is two class definitions of one       *)
(* program, their steps taken in any order; SpecRestrict is the call of a  *)
(* decorator wrapped by `restrict` (DETAILS.md); SpecMap, SpecFriendKey    *)
(* and SpecFriends are the friend decorators of friend.js: the map of      *)
(* Private Names by class, FriendKey, and @expose, @inherit, @abstract     *)
(* and @override.                                                          *)
(***************************************************************************)
EXTENDS Integers, Sequences, FiniteSets, TLC

(* ---------------------------- bounds ----------------------------------- *)
MaxElems == 2      \* class elements per class
MaxChain == 2      \* decorators written on one element or on the class;
                   \* classes of a hierarchy: 2..(2 * MaxChain + 1)
MaxDecs  == 2      \* decorators written in one class, all owners together
MaxInstances == 2  \* objects constructed after the class definition
MaxValue == 1      \* values stored in private fields: 0..MaxValue

(* ---------------------------- the class text --------------------------- *)
ElemKinds == {"method", "field"}

ElementShape == [kind : ElemKinds, static : BOOLEAN, nDecs : 0..MaxChain]

RECURSIVE SumDecs(_, _)
SumDecs(elems, n) ==
  IF n = 0 THEN 0 ELSE elems[n].nDecs + SumDecs(elems, n - 1)

ClassShapes ==
  { c \in [elems : UNION { [1..n -> ElementShape] : n \in 1..MaxElems },
           nClassDecs : 0..MaxChain] :
      SumDecs(c.elems, Len(c.elems)) + c.nClassDecs <= MaxDecs }

\* One decorator as written: owner 0 is the class, owner i > 0 the i-th
\* element; pos counts the decorators of one owner left to right, so pos 1
\* is the outermost and pos nDecs the innermost (closest to the declaration).
\* pos 0 stands for the property name of element `owner`.
Occ(owner, pos) == [owner |-> owner, pos |-> pos]

NDecs(c, owner) == IF owner = 0 THEN c.nClassDecs ELSE c.elems[owner].nDecs

\* decorators of one owner, left to right
LeftToRight(c, owner) == [i \in 1..NDecs(c, owner) |-> Occ(owner, i)]

\* decorators of one owner from the inside to the outside
\* outermost first
InsideOut_OutsideIn(c, owner) == LeftToRight(c, owner)
InsideOut(c, owner) ==
  [i \in 1..NDecs(c, owner) |-> Occ(owner, NDecs(c, owner) + 1 - i)]

RECURSIVE ElementsTopToBottom(_, _)
\* the decorator expressions and property names of elements 1..n in textual
\* order: for each element its decorators left to right, then its name
ElementsTopToBottom(c, n) ==
  IF n = 0 THEN << >>
  ELSE ElementsTopToBottom(c, n - 1) \o LeftToRight(c, n) \o << Occ(n, 0) >>

\* the class decorators evaluated after the class body
EvaluationOrder_ClassLast(c) ==
  ElementsTopToBottom(c, Len(c.elems)) \o LeftToRight(c, 0)

\* Decorators are evaluated as expressions, ordered along with computed
\* property names, left to right, top to bottom; the class decorators are
\* written before the class body.
EvaluationOrder(c) ==
  LeftToRight(c, 0) \o ElementsTopToBottom(c, Len(c.elems))

RECURSIVE ElementCallOrderUpTo(_, _)
ElementCallOrderUpTo(c, n) ==
  IF n = 0 THEN << >>
  ELSE ElementCallOrderUpTo(c, n - 1) \o InsideOut(c, n)

RECURSIVE CallOrderOfPlacement(_, _, _)
CallOrderOfPlacement(c, n, static) ==
  IF n = 0 THEN << >>
  ELSE CallOrderOfPlacement(c, n - 1, static) \o
       (IF c.elems[n].static = static THEN InsideOut(c, n) ELSE << >>)

\* all instance decorators before all static decorators
ElementCallOrder_InstanceFirst(c) ==
  CallOrderOfPlacement(c, Len(c.elems), FALSE) \o
  CallOrderOfPlacement(c, Len(c.elems), TRUE)

\* element decorators are called in the order of the elements in the
\* program, static or not, each element's decorators inside to outside
ElementCallOrder(c) == ElementCallOrderUpTo(c, Len(c.elems))

ClassCallOrder(c) == InsideOut(c, 0)

(* ---------------------------- values ----------------------------------- *)
\* A decorated value is the list of the decorators that replaced it, first
\* replacement first: << >> is the value as written; f(x) = x+"-f" appends.
Base == << >>
Undefined == << 0 >>       \* what a field decorator receives
NotDefined == << -1 >>     \* an element not (yet) defined on the class

IsField(c, owner) == owner > 0 /\ c.elems[owner].kind = "field"

\* addInitializer: class decorators add class initializers, decorators of
\* static elements static-element initializers, the others instance ones
InitializerLevel(c, owner) ==
  IF owner = 0 THEN "class"
  ELSE IF c.elems[owner].static THEN "static" ELSE "instance"

\* the initializers of one level, in the order they were added
OfLevel(inits, level) == SelectSeq(inits, LAMBDA i : i.level = level)

RECURSIVE StaticFieldsUpTo(_, _)
StaticFieldsUpTo(c, n) ==
  IF n = 0 THEN << >>
  ELSE StaticFieldsUpTo(c, n - 1) \o
       (IF c.elems[n].kind = "field" /\ c.elems[n].static THEN << n >> ELSE << >>)

\* the static fields of the class, top to bottom
StaticFields(c) == StaticFieldsUpTo(c, Len(c.elems))

RECURSIVE InstanceFieldsUpTo(_, _)
InstanceFieldsUpTo(c, n) ==
  IF n = 0 THEN << >>
  ELSE InstanceFieldsUpTo(c, n - 1) \o
       (IF c.elems[n].kind = "field" /\ ~c.elems[n].static THEN << n >> ELSE << >>)

\* the fields of the instances of the class, top to bottom
InstanceFields(c) == InstanceFieldsUpTo(c, Len(c.elems))

(* ---------------------------- the steps -------------------------------- *)
\* class initializers before static fields
Steps_ClassInitializersBeforeStaticFields ==
  << "Evaluating", "CallingElements", "ApplyingElements", "CallingClass",
     "ApplyingClass", "StaticElementInitializers", "ClassInitializers",
     "StaticFields", "Committed" >>

\* class initializers as soon as the class decorators are applied
Steps_ClassInitializersEarly ==
  << "Evaluating", "CallingElements", "ApplyingElements", "CallingClass",
     "ApplyingClass", "ClassInitializers", "StaticElementInitializers",
     "StaticFields", "Committed" >>

\* class decorators called before the element decorators
Steps_ClassDecoratorsFirst ==
  << "Evaluating", "CallingClass", "ApplyingClass", "CallingElements",
     "ApplyingElements", "StaticElementInitializers", "StaticFields",
     "ClassInitializers", "Committed" >>

\* element decorators never applied
Steps_ApplySkipped ==
  << "Evaluating", "CallingElements", "CallingClass", "ApplyingClass",
     "StaticElementInitializers", "StaticFields", "ClassInitializers",
     "Committed" >>

\* static fields executed before the static-element initializers
Steps_StaticFieldsFirst ==
  << "Evaluating", "CallingElements", "ApplyingElements", "CallingClass",
     "ApplyingClass", "StaticFields", "StaticElementInitializers",
     "ClassInitializers", "Committed" >>

\* static-element initializers after the class initializers
Steps_StaticElementInitializersLast ==
  << "Evaluating", "CallingElements", "ApplyingElements", "CallingClass",
     "ApplyingClass", "StaticFields", "ClassInitializers",
     "StaticElementInitializers", "Committed" >>

\* static-element initializers run as soon as the element decorators are
\* called
Steps_InitializersWhileCalling ==
  << "Evaluating", "CallingElements", "StaticElementInitializers",
     "ApplyingElements", "CallingClass", "ApplyingClass", "StaticFields",
     "ClassInitializers", "Committed" >>

\* The order of class definition evaluation: decorators are evaluated, the
\* element decorators are called, then applied all at once; the class
\* decorators are called only after that, and applied; static-element
\* initializers run before static fields are defined; finally static fields
\* are executed and applied, the class initializers run after them, and the
\* class is available.
Steps ==
  << "Evaluating", "CallingElements", "ApplyingElements", "CallingClass",
     "ApplyingClass", "StaticElementInitializers", "StaticFields",
     "ClassInitializers", "Committed" >>

NextStep(step) == Steps[(CHOOSE i \in DOMAIN Steps : Steps[i] = step) + 1]

\* The three steps of decorator evaluation the README names, by step of the
\* algorithm: decorators are evaluated, called, applied.
Phase(step) ==
  CASE step = "Evaluating" -> "Evaluating"
    [] step \in {"CallingElements", "CallingClass"} -> "Calling"
    [] step \in {"ApplyingElements", "ApplyingClass", "StaticElementInitializers",
                 "StaticFields", "ClassInitializers"} -> "Applying"
    [] OTHER -> step

(* ---------------------------- state ------------------------------------ *)
VARIABLES
  cls,          \* the class definition being evaluated
  pc,           \* the step of class definition evaluation in progress
  idx,          \* next item of the current step's work list
  evaluated,    \* results of decorator expressions and names, in order
  value,        \* owner -> current value being decorated
  installed,    \* owner -> what is defined on constructor/prototype
  initializers, \* initializers added through addInitializer, in order
  callLog,      \* decorator calls made: owner, pos, argument, return, result
  ranLog,       \* initializers and static fields run, in order
  exposedTo,    \* kinds of user code that were handed the class
  bound,        \* the class is available to the program
  err,          \* the error that aborted the definition, with its step
  sub,          \* subclasses of the class defined after it: none or one
  instances,    \* objects constructed: for each the class it is `new` of
  newLog,       \* what the constructors ran, in order, with their receiver
  private,      \* the elements of the class written with a #name
  slots,        \* object -> private element -> value stored on the object
  out,          \* the last access to a private element and its outcome
  names,        \* element -> the name it is declared with
  contexts,     \* the context object of each decorator call, in order
  metadata,     \* the Symbol.metadata objects of the class and its parent
  builtins,     \* the built-in decorators the decorator lists evaluated to
  privateNames, \* the Private Names created and the elements they define
  other,        \* a second class definition of the program, set aside
  restricted,   \* a call of a decorator wrapped by `restrict`
  friends       \* the maps, classes and objects of the friend decorators

\* the state of the program once the class is defined
annotations == << names, contexts, metadata, builtins, privateNames, other,
                 restricted, friends >>

runtime == << sub, instances, newLog, private, slots, out, names, contexts,
             metadata, builtins, privateNames, other, restricted, friends >>

vars == << cls, pc, idx, evaluated, value, installed, initializers,
           callLog, ranLog, exposedTo, bound, err, sub, instances, newLog,
           private, slots, out, names, contexts, metadata, builtins,
           privateNames, other, restricted, friends >>

Owners == 0..Len(cls.elems)

NoError == [name |-> "none", at |-> "none"]

\* the values a program stores in a private field
Vals == 0..MaxValue

NoResult == [kind |-> "none"]

NoAccess == [op |-> "none", this |-> 0, owner |-> 0, token |-> 0, v |-> 0,
             error |-> "none", result |-> NoResult]

\* the names elements are declared with, and the name of the class
Names == 0..MaxValue

ClassName == MaxValue + 1

\* const MY_META = Symbol(); const OTHER_META = Symbol()
Keys == {"MY_META", "OTHER_META"}

\* the two metadata objects: the one of the constructor, for static elements
\* and the class itself, and the one of the prototype, for the others
Sides == {"constructor", "prototype"}

Absent == << >>

\* interface Metadata { constructor?; public?: Record; private?: unknown[] }
EmptyMetadata == [constructor |-> Absent, public |-> << >>, private |-> << >>]

\* a class without metadata, whose parent has none
NoMetadata ==
  [super |-> [s \in Sides |-> [k \in Keys |-> EmptyMetadata]],
   own |-> [s \in Sides |-> [k \in Keys |-> EmptyMetadata]]]

\* no decorator list evaluated to built-in decorators
NoBuiltins == [records |-> << >>, callbacks |-> << >>, registered |-> << >>]

\* no Private Name is created
NoPrivateNames == [created |-> << >>, defined |-> << >>, error |-> "none"]

\* no decorator was handed a context that the program kept
\* no second class definition, no call of `restrict`, no friend decorators
NoLibraries ==
  /\ other = Absent
  /\ restricted = Absent
  /\ friends = Absent

NoAnnotations ==
  /\ names = << >>
  /\ contexts = << >>
  /\ metadata = NoMetadata
  /\ builtins = NoBuiltins
  /\ privateNames = NoPrivateNames
  /\ NoLibraries

Init ==
  /\ cls \in ClassShapes
  /\ pc = Steps[1]
  /\ idx = 1
  /\ evaluated = << >>
  /\ value = [o \in 0..Len(cls.elems) |-> Base]
  /\ installed = [o \in 0..Len(cls.elems) |-> NotDefined]
  /\ initializers = << >>
  /\ callLog = << >>
  /\ ranLog = << >>
  /\ exposedTo = {}
  /\ bound = FALSE
  /\ err = NoError
  /\ sub = << >>
  /\ instances = << >>
  /\ newLog = << >>
  /\ private = {}
  /\ slots = << >>
  /\ out = NoAccess
  /\ NoAnnotations

\* the error is recorded and evaluation goes on
Abort_Swallowed(name) ==
  /\ pc' = pc
  /\ err' = [name |-> name, at |-> pc]

\* an error thrown at any step unwinds the whole class definition
Abort(name) ==
  /\ pc' = "Aborted"
  /\ err' = [name |-> name, at |-> pc]

\* the current step has no work left: go on to the next one
StepDone ==
  /\ pc' = NextStep(pc)
  /\ idx' = 1
  /\ UNCHANGED err

(* ---------------------------- 1. evaluating ---------------------------- *)
\* Evaluate the next decorator expression or property name. The result is
\* stored to be called later; nothing is called here.
EvaluateNext ==
  /\ pc = "Evaluating"
  /\ idx <= Len(EvaluationOrder(cls))
  /\ LET item == EvaluationOrder(cls)[idx] IN
     \E outcome \in {"value", "throw"} :
       IF outcome = "value"
       THEN /\ evaluated' = Append(evaluated, item)
            /\ idx' = idx + 1
            /\ UNCHANGED << pc, err >>
       ELSE /\ Abort("EvaluationError")
            /\ UNCHANGED << evaluated, idx >>
  /\ UNCHANGED << cls, value, installed, initializers, callLog, ranLog,
                  exposedTo, bound >>
  /\ UNCHANGED runtime

\* A decorator expression whose value is not callable
EvaluateNonCallable ==
  /\ pc = "Evaluating"
  /\ idx <= Len(EvaluationOrder(cls))
  /\ EvaluationOrder(cls)[idx].pos > 0
  /\ Abort("ResolutionError")
  /\ UNCHANGED << cls, idx, evaluated, value, installed, initializers,
                  callLog, ranLog, exposedTo, bound >>
  /\ UNCHANGED runtime

EvaluatingDone ==
  /\ pc = "Evaluating"
  /\ idx > Len(EvaluationOrder(cls))
  /\ StepDone
  /\ UNCHANGED << cls, evaluated, value, installed, initializers, callLog,
                  ranLog, exposedTo, bound >>
  /\ UNCHANGED runtime

(* ---------------------------- 2. calling ------------------------------- *)
Returns == {"nothing", "replacement", "other", "throw"}

\* what the decorator at `d` is passed as the value being decorated
Argument(c, val, d) == IF IsField(c, d.owner) THEN Undefined ELSE val[d.owner]

\* `?? value`: returning nothing keeps the current value
Result(val, d, ret) ==
  IF ret = "replacement" THEN Append(val[d.owner], d.pos) ELSE val[d.owner]

\* addInitializer is on the context of every decorator except a field's
HasAddInitializer(c, d) == ~IsField(c, d.owner)

\* every element decorator gets an access object
HasAccess_Legacy(priv, d) == d.owner > 0

\* `access` is only available for private class elements
HasAccess(priv, d) == d.owner \in priv

\* every decorator is called with the target, the class under construction
ReceivesClass_Legacy(c, d) == TRUE

\* class decorators receive the class as the first parameter; the class
\* under construction is not made available to the other decorators
ReceivesClass(c, d) == d.owner = 0

DecoratorOf(d) == IF d.owner = 0 THEN "classDecorator" ELSE "elementDecorator"

\* whatever the decorator returns is taken
CallDecorator_Unchecked(d, ret, adds) ==
  /\ adds => HasAddInitializer(cls, d)
  /\ exposedTo' = IF ReceivesClass(cls, d)
                  THEN exposedTo \cup {DecoratorOf(d)} ELSE exposedTo
  /\ IF ret = "throw"
     THEN /\ Abort("DecoratorThrew")
          /\ UNCHANGED << idx, value, initializers, callLog >>
     ELSE /\ value' = [value EXCEPT ![d.owner] = Result(value, d, ret)]
          /\ callLog' = Append(callLog,
               [owner |-> d.owner, pos |-> d.pos, ret |-> ret,
                arg |-> Argument(cls, value, d),
                res |-> Result(value, d, ret)])
          /\ initializers' =
               IF adds
               THEN Append(initializers,
                      [level |-> InitializerLevel(cls, d.owner),
                       owner |-> d.owner, pos |-> d.pos])
               ELSE initializers
          /\ idx' = idx + 1
          /\ UNCHANGED << pc, err >>

\* One decorator call: decorator `d` is called with the value and a context
\* object; it may call context.addInitializer, then returns or throws.
CallDecorator(d, ret, adds) ==
  /\ adds => HasAddInitializer(cls, d)
  /\ exposedTo' = IF ReceivesClass(cls, d)
                  THEN exposedTo \cup {DecoratorOf(d)} ELSE exposedTo
  /\ CASE ret = "throw" ->
            /\ Abort("DecoratorThrew")
            /\ UNCHANGED << idx, value, initializers, callLog >>
       [] ret = "other" ->
            /\ Abort("ShapeViolation")
            /\ UNCHANGED << idx, value, initializers, callLog >>
       [] OTHER ->
            /\ value' = [value EXCEPT ![d.owner] = Result(value, d, ret)]
            /\ callLog' = Append(callLog,
                 [owner |-> d.owner, pos |-> d.pos, ret |-> ret,
                  arg |-> Argument(cls, value, d),
                  res |-> Result(value, d, ret)])
            /\ initializers' =
                 IF adds
                 THEN Append(initializers,
                        [level |-> InitializerLevel(cls, d.owner),
                         owner |-> d.owner, pos |-> d.pos])
                 ELSE initializers
            /\ idx' = idx + 1
            /\ UNCHANGED << pc, err >>

CallElementDecorator ==
  /\ pc = "CallingElements"
  /\ idx <= Len(ElementCallOrder(cls))
  /\ \E ret \in Returns, adds \in BOOLEAN :
       CallDecorator(ElementCallOrder(cls)[idx], ret, adds)
  /\ UNCHANGED << cls, evaluated, installed, ranLog, bound >>
  /\ UNCHANGED runtime

CallingElementsDone ==
  /\ pc = "CallingElements"
  /\ idx > Len(ElementCallOrder(cls))
  /\ StepDone
  /\ UNCHANGED << cls, evaluated, value, installed, initializers, callLog,
                  ranLog, exposedTo, bound >>
  /\ UNCHANGED runtime

(* ---------------------------- 3. applying ------------------------------ *)
\* All element decorators are applied at once: each decorated method is
\* defined on the prototype (or on the class when static). Fields are
\* defined later, when they are initialized.
ApplyElementDecorators ==
  /\ pc = "ApplyingElements"
  /\ installed' = [o \in Owners |->
                     IF o > 0 /\ ~IsField(cls, o) THEN value[o] ELSE installed[o]]
  /\ StepDone
  /\ UNCHANGED << cls, evaluated, value, initializers, callLog, ranLog,
                  exposedTo, bound >>
  /\ UNCHANGED runtime

\* The class decorator is called only after all method and field decorators
\* are called and applied; it receives the class as its first parameter.
CallClassDecorator ==
  /\ pc = "CallingClass"
  /\ idx <= Len(ClassCallOrder(cls))
  /\ \E ret \in Returns, adds \in BOOLEAN :
       CallDecorator(ClassCallOrder(cls)[idx], ret, adds)
  /\ UNCHANGED << cls, evaluated, installed, ranLog, bound >>
  /\ UNCHANGED runtime

CallingClassDone ==
  /\ pc = "CallingClass"
  /\ idx > Len(ClassCallOrder(cls))
  /\ StepDone
  /\ UNCHANGED << cls, evaluated, value, installed, initializers, callLog,
                  ranLog, exposedTo, bound >>
  /\ UNCHANGED runtime

\* `C = decorator(C, ...) ?? C`
ApplyClassDecorators ==
  /\ pc = "ApplyingClass"
  /\ installed' = [installed EXCEPT ![0] = value[0]]
  /\ StepDone
  /\ UNCHANGED << cls, evaluated, value, initializers, callLog, ranLog,
                  exposedTo, bound >>
  /\ UNCHANGED runtime

\* `initializer.call(C)`: the initializer gets the class as `this`; it
\* returns or throws
RunInitializer(i, outcome, who) ==
  /\ exposedTo' = exposedTo \cup {who}
  /\ IF outcome = "throw"
     THEN /\ Abort("InitializerThrew")
          /\ UNCHANGED << idx, ranLog >>
     ELSE /\ ranLog' = Append(ranLog, [op |-> "initializer", level |-> i.level,
                                       owner |-> i.owner, pos |-> i.pos])
          /\ idx' = idx + 1
          /\ UNCHANGED << pc, err >>

\* Class static element initializers run during class definition, before
\* static class fields are defined, but after class elements are defined.
RunStaticElementInitializer ==
  /\ pc = "StaticElementInitializers"
  /\ idx <= Len(OfLevel(initializers, "static"))
  /\ \E outcome \in {"return", "throw"} :
       RunInitializer(OfLevel(initializers, "static")[idx], outcome,
                      "staticElementInitializer")
  /\ UNCHANGED << cls, evaluated, value, installed, initializers, callLog, bound >>
  /\ UNCHANGED runtime

StaticElementInitializersDone ==
  /\ pc = "StaticElementInitializers"
  /\ idx > Len(OfLevel(initializers, "static"))
  /\ StepDone
  /\ UNCHANGED << cls, evaluated, value, installed, initializers, callLog,
                  ranLog, exposedTo, bound >>
  /\ UNCHANGED runtime

\* Finally, static fields are executed and applied: the field's initial
\* value is computed with the class as `this` and passed through the
\* initializers its decorators returned, then the field is defined.
ExecuteStaticField ==
  /\ pc = "StaticFields"
  /\ idx <= Len(StaticFields(cls))
  /\ LET f == StaticFields(cls)[idx] IN
     \E outcome \in {"return", "throw"} :
       IF outcome = "throw"
       THEN /\ Abort("FieldInitializerThrew")
            /\ UNCHANGED << idx, installed, ranLog >>
       ELSE /\ installed' = [installed EXCEPT ![f] = value[f]]
            /\ ranLog' = Append(ranLog, [op |-> "staticField", level |-> "static",
                                         owner |-> f, pos |-> 0])
            /\ idx' = idx + 1
            /\ UNCHANGED << pc, err >>
  /\ exposedTo' = exposedTo \cup {"staticFieldInitializer"}
  /\ UNCHANGED << cls, evaluated, value, initializers, callLog, bound >>
  /\ UNCHANGED runtime

StaticFieldsDone ==
  /\ pc = "StaticFields"
  /\ idx > Len(StaticFields(cls))
  /\ StepDone
  /\ UNCHANGED << cls, evaluated, value, installed, initializers, callLog,
                  ranLog, exposedTo, bound >>
  /\ UNCHANGED runtime

\* Class decorator initializers are run after the class has been fully
\* defined, and after class static fields have been assigned.
RunClassInitializer ==
  /\ pc = "ClassInitializers"
  /\ idx <= Len(OfLevel(initializers, "class"))
  /\ \E outcome \in {"return", "throw"} :
       RunInitializer(OfLevel(initializers, "class")[idx], outcome,
                      "classInitializer")
  /\ UNCHANGED << cls, evaluated, value, installed, initializers, callLog, bound >>
  /\ UNCHANGED runtime

ClassInitializersDone ==
  /\ pc = "ClassInitializers"
  /\ idx > Len(OfLevel(initializers, "class"))
  /\ StepDone
  /\ UNCHANGED << cls, evaluated, value, installed, initializers, callLog,
                  ranLog, exposedTo, bound >>
  /\ UNCHANGED runtime

\* the class definition has completed: the class becomes available
Bind ==
  /\ pc = "Committed"
  /\ ~bound
  /\ bound' = TRUE
  /\ UNCHANGED << cls, pc, idx, evaluated, value, installed, initializers,
                  callLog, ranLog, exposedTo, err >>
  /\ UNCHANGED runtime

Next ==
  \/ EvaluateNext
  \/ EvaluateNonCallable
  \/ EvaluatingDone
  \/ CallElementDecorator
  \/ CallingElementsDone
  \/ ApplyElementDecorators
  \/ CallClassDecorator
  \/ CallingClassDone
  \/ ApplyClassDecorators
  \/ RunStaticElementInitializer
  \/ StaticElementInitializersDone
  \/ ExecuteStaticField
  \/ StaticFieldsDone
  \/ RunClassInitializer
  \/ ClassInitializersDone
  \/ Bind

Spec == Init /\ [][Next]_vars

(* ======================================================================= *)
(* The class definition as a whole                                         *)
(* ======================================================================= *)
\* the decorators of a class in the order they are called
Decorators(c) == ElementCallOrder(c) \o ClassCallOrder(c)

\* What the decorators of a class do when called: each returns nothing or
\* a replacement and may add an initializer. rets and adds bound the choice.
Behaviours(c, rets, adds) ==
  { b \in [DOMAIN Decorators(c) -> [ret : rets, adds : adds]] :
      \A n \in DOMAIN b : b[n].adds => HasAddInitializer(c, Decorators(c)[n]) }

RECURSIVE Called(_, _, _)
\* the values, the calls made and the initializers added once the first n
\* decorators of the class have been called, none throwing
Called(c, b, n) ==
  IF n = 0
  THEN [value |-> [o \in 0..Len(c.elems) |-> Base],
        callLog |-> << >>, initializers |-> << >>]
  ELSE LET before == Called(c, b, n - 1)
           d == Decorators(c)[n]
       IN  [value |-> [before.value EXCEPT ![d.owner] =
                         Result(before.value, d, b[n].ret)],
            callLog |-> Append(before.callLog,
                          [owner |-> d.owner, pos |-> d.pos, ret |-> b[n].ret,
                           arg |-> Argument(c, before.value, d),
                           res |-> Result(before.value, d, b[n].ret)]),
            initializers |->
              IF b[n].adds
              THEN Append(before.initializers,
                     [level |-> InitializerLevel(c, d.owner),
                      owner |-> d.owner, pos |-> d.pos])
              ELSE before.initializers]

\* the initializers of one level as run during the class definition
RanInitializers(inits, level) ==
  [n \in 1..Len(OfLevel(inits, level)) |->
     [op |-> "initializer", level |-> level,
      owner |-> OfLevel(inits, level)[n].owner,
      pos |-> OfLevel(inits, level)[n].pos]]

\* The class definition evaluated from start to end with nothing thrown:
\* the decorators are called in order, methods and static fields are
\* defined, the class is replaced, the static-element initializers, the
\* static fields and the class initializers have run.
Defined(c, b) ==
  LET called == Called(c, b, Len(Decorators(c)))
      inits == called.initializers
  IN  [evaluated |-> EvaluationOrder(c),
       value |-> called.value,
       callLog |-> called.callLog,
       initializers |-> inits,
       installed |-> [o \in 0..Len(c.elems) |->
                        IF o > 0 /\ IsField(c, o) /\ ~c.elems[o].static
                        THEN NotDefined ELSE called.value[o]],
       ranLog |-> RanInitializers(inits, "static") \o
                  [n \in 1..Len(StaticFields(c)) |->
                     [op |-> "staticField", level |-> "static",
                      owner |-> StaticFields(c)[n], pos |-> 0]] \o
                  RanInitializers(inits, "class"),
       exposedTo |->
         (IF c.nClassDecs > 0 THEN {"classDecorator"} ELSE {}) \cup
         (IF OfLevel(inits, "static") # << >>
          THEN {"staticElementInitializer"} ELSE {}) \cup
         (IF StaticFields(c) # << >> THEN {"staticFieldInitializer"} ELSE {}) \cup
         (IF OfLevel(inits, "class") # << >> THEN {"classInitializer"} ELSE {})]

\* the class `c`, its decorators behaving as `b`, is defined and available
IsDefined(c, b) ==
  /\ cls = c
  /\ pc = "Committed"
  /\ idx = 1
  /\ evaluated = Defined(c, b).evaluated
  /\ value = Defined(c, b).value
  /\ installed = Defined(c, b).installed
  /\ initializers = Defined(c, b).initializers
  /\ callLog = Defined(c, b).callLog
  /\ ranLog = Defined(c, b).ranLog
  /\ exposedTo = Defined(c, b).exposedTo
  /\ bound = TRUE
  /\ err = NoError

(* ======================================================================= *)
(* Construction                                                            *)
(* ======================================================================= *)
\* the initializers of the class and of its elements replayed by mistake
CtorInitializers_All(inits) == inits

\* the instance initializers last added first
CtorInitializers_Reversed(inits) ==
  [n \in 1..Len(OfLevel(inits, "instance")) |->
     OfLevel(inits, "instance")[Len(OfLevel(inits, "instance")) + 1 - n]]

\* `for (let initializer of initializersForM)`: the initializers added by
\* the decorators of the non-static elements, in the order they were added
CtorInitializers(inits) == OfLevel(inits, "instance")

\* what of a defined class is needed to construct its instances: the
\* initializers its constructor runs and the fields it initializes
ClassRecord(c, inits) ==
  [inits |-> CtorInitializers(inits), fields |-> InstanceFields(c)]

InitializerRuns(k, class, this) ==
  [n \in 1..Len(class.inits) |->
     [op |-> "initializer", class |-> k, owner |-> class.inits[n].owner,
      pos |-> class.inits[n].pos, level |-> class.inits[n].level,
      this |-> this]]

FieldRuns(k, class, this) ==
  [n \in 1..Len(class.fields) |->
     [op |-> "field", class |-> k, owner |-> class.fields[n], pos |-> 0,
      level |-> "instance", this |-> this]]

\* the fields are initialized first
Constructor_FieldsFirst(k, class, this) ==
  FieldRuns(k, class, this) \o InitializerRuns(k, class, this)

\* The constructor of class number k run on the object `this`:
\*   for (let initializer of initializersForM) initializer.call(this);
\*   this.message = "hello!";
Constructor(k, class, this) ==
  InitializerRuns(k, class, this) \o FieldRuns(k, class, this)

\* only the constructor of the class itself
ConstructorChain_OwnOnly(k) == << k >>

\* the constructors run by `new` of class k, in order: class 0 is the class
\* defined, class 1 its subclass, whose constructor starts with super()
ConstructorChain(k) == [n \in 1..(k + 1) |-> n - 1]

\* the classes of the program: number 0 is `cls`, number 1 its subclass
Class(k) == IF k = 0 THEN ClassRecord(cls, initializers) ELSE sub[k]

RECURSIVE RunConstructors(_, _)
RunConstructors(chain, this) ==
  IF chain = << >> THEN << >>
  ELSE Constructor(Head(chain), Class(Head(chain)), this) \o
       RunConstructors(Tail(chain), this)

\* the private elements that hold a value on each instance: private fields
\* and the storage of private auto-accessors
Storage == { o \in private : cls.elems[o].kind \in {"field", "accessor"} }

\* `new` of class k: the object is created and the constructors run on it;
\* its private fields get their initial values
New(k) ==
  /\ bound
  /\ Len(instances) < MaxInstances
  /\ instances' = Append(instances, k)
  /\ newLog' = newLog \o RunConstructors(ConstructorChain(k), Len(instances) + 1)
  /\ \E initial \in [Storage -> Vals] : slots' = Append(slots, initial)
  /\ UNCHANGED << cls, pc, idx, evaluated, value, installed, initializers,
                  callLog, ranLog, exposedTo, bound, err, sub, private, out >>
  /\ UNCHANGED annotations

\* let c = new C()
NewInstance == New(0)

\* class B extends C { ... }; let b = new B()
NewSubclassInstance ==
  /\ sub # << >>
  /\ New(1)

\* the classes a subclass is drawn from: one element that is not static
SubShapes ==
  { c \in ClassShapes :
      Len(c.elems) = 1 /\ ~c.elems[1].static /\ c.nClassDecs = 0 }

\* the subclasses, defined like any class
SubClasses ==
  UNION { { ClassRecord(c, Defined(c, b).initializers) :
              b \in Behaviours(c, {"nothing"}, BOOLEAN) } : c \in SubShapes }

\* The program after its class definitions: the class is defined, its
\* decorators having returned nothing (like @bound, they add initializers),
\* and a subclass of it may be; no object is constructed yet.
InitNew ==
  /\ \E c \in ClassShapes :
       \E b \in Behaviours(c, {"nothing"}, BOOLEAN) : IsDefined(c, b)
  /\ sub \in {<< >>} \cup { << s >> : s \in SubClasses }
  /\ instances = << >>
  /\ newLog = << >>
  /\ private = {}
  /\ slots = << >>
  /\ out = NoAccess
  /\ NoAnnotations

NextNew ==
  \/ NewInstance
  \/ NewSubclassInstance

SpecNew == InitNew /\ [][NextNew]_vars

(* ======================================================================= *)
(* Access to private elements                                              *)
(* ======================================================================= *)
\* a private element is a field, an auto-accessor or a method
AccessKinds == {"field", "accessor", "method"}

\* Fields and auto-accessors can be both read and written to; methods can
\* only be read.
CanSet(c, o) == c.elems[o].kind \in {"field", "accessor"}

\* the context.access objects handed out: one to every decorator called on
\* a private element, numbered by the call
Tokens == { n \in DOMAIN callLog : HasAccess(private, callLog[n]) }

\* the accessor or method as it was when the decorator was called with it
TokenTarget_Snapshot(n) == callLog[n].arg

\* The get and set of context.access get the final value of the private
\* element, not the value passed to the decorator.
TokenTarget(n) == installed[callLog[n].owner]

\* any object passes
HasElement_Any(x) == TRUE

\* the object was constructed by the class or by its subclass: the private
\* elements of the class are on it
HasElement(x) == instances[x] <= Len(sub)

Stored(h, x, o) == IF o \in DOMAIN h[x] THEN h[x][o] ELSE 0 - 1

\* Reading private element o of object x, `target` being the accessor or
\* method it is bound to: a field gives the value stored, an accessor calls
\* the getter, which reads the value stored, a method gives the method.
Read(h, x, o, target) ==
  CASE cls.elems[o].kind = "field" ->
         [kind |-> "value", value |-> Stored(h, x, o), via |-> Base]
    [] cls.elems[o].kind = "accessor" ->
         [kind |-> "value", value |-> Stored(h, x, o), via |-> target]
    [] OTHER -> [kind |-> "function", via |-> target]

\* what a write answers: a field is written, an accessor calls the setter
WriteResult(o, target) ==
  IF cls.elems[o].kind = "field"
  THEN [kind |-> "written", via |-> Base]
  ELSE [kind |-> "written", via |-> target]

Store(h, x, o, v) ==
  [h EXCEPT ![x] = [p \in (DOMAIN h[x]) \cup {o} |->
                      IF p = o THEN v ELSE h[x][p]]]

\* `x.#e` in the class body: a TypeError unless x has the element
PrivateGet(h, x, o) ==
  IF HasElement(x)
  THEN [error |-> "none", result |-> Read(h, x, o, installed[o]), slots |-> h]
  ELSE [error |-> "TypeError", result |-> NoResult, slots |-> h]

\* `x.#e = v` in the class body
PrivateSet(h, x, o, v) ==
  IF HasElement(x)
  THEN [error |-> "none", result |-> WriteResult(o, installed[o]),
        slots |-> Store(h, x, o, v)]
  ELSE [error |-> "TypeError", result |-> NoResult, slots |-> h]

\* `access.get.call(x)` of token n
AccessGet(h, n, x) ==
  IF HasElement(x)
  THEN [error |-> "none",
        result |-> Read(h, x, callLog[n].owner, TokenTarget(n)), slots |-> h]
  ELSE [error |-> "TypeError", result |-> NoResult, slots |-> h]

\* the value is not stored
AccessSet_Dropped(h, n, x, v) ==
  [error |-> "none", result |-> WriteResult(callLog[n].owner, TokenTarget(n)),
   slots |-> h]

\* `access.set.call(x, v)` of token n
AccessSet(h, n, x, v) ==
  IF HasElement(x)
  THEN [error |-> "none",
        result |-> WriteResult(callLog[n].owner, TokenTarget(n)),
        slots |-> Store(h, x, callLog[n].owner, v)]
  ELSE [error |-> "TypeError", result |-> NoResult, slots |-> h]

\* the outcome of an access is recorded and the store updated
Accessed(op, n, o, x, v, outcome) ==
  /\ out' = [op |-> op, this |-> x, owner |-> o, token |-> n, v |-> v,
             error |-> outcome.error, result |-> outcome.result]
  /\ slots' = outcome.slots
  /\ UNCHANGED << cls, pc, idx, evaluated, value, installed, initializers,
                  callLog, ranLog, exposedTo, bound, err, sub, instances,
                  newLog, private >>
  /\ UNCHANGED annotations

\* let x1 = get.call(this)
TokenGet ==
  \E n \in Tokens, x \in DOMAIN instances :
    /\ bound
    /\ Accessed("access.get", n, callLog[n].owner, x, 0, AccessGet(slots, n, x))

\* set.call(this, x1 + 1)
TokenSet ==
  \E n \in Tokens, x \in DOMAIN instances, v \in Vals :
    /\ bound
    /\ CanSet(cls, callLog[n].owner)
    /\ Accessed("access.set", n, callLog[n].owner, x, v, AccessSet(slots, n, x, v))

\* let x2 = this.#x
DirectGet ==
  \E o \in private, x \in DOMAIN instances :
    /\ bound
    /\ Accessed("get", 0, o, x, 0, PrivateGet(slots, x, o))

\* this.#x = x2 + 1
DirectSet ==
  \E o \in private, x \in DOMAIN instances, v \in Vals :
    /\ bound
    /\ CanSet(cls, o)
    /\ Accessed("set", 0, o, x, v, PrivateSet(slots, x, o, v))

\* the classes with one element, not static, of any kind that can be private
AccessShapes ==
  { c \in [elems : [1..1 -> [kind : AccessKinds, static : {FALSE},
                             nDecs : 0..MaxChain]],
           nClassDecs : {0}] :
      SumDecs(c.elems, Len(c.elems)) <= MaxDecs }

\* class B extends C {}
PlainSubclass == [inits |-> << >>, fields |-> << >>]

\* The program after the class definition, the decorators having returned
\* nothing or a replacement: the element of the class is private or not;
\* an instance of the class, an instance of a subclass of it and an object
\* of another class were constructed, the private fields holding any value.
InitAccess ==
  /\ \E c \in AccessShapes :
       \E b \in Behaviours(c, {"nothing", "replacement"}, {FALSE}) :
         IsDefined(c, b)
  /\ private \in SUBSET (1..Len(cls.elems))
  /\ sub = << PlainSubclass >>
  /\ instances = << 0, 1, 2 >>
  /\ newLog = RunConstructors(ConstructorChain(0), 1) \o
              RunConstructors(ConstructorChain(1), 2)
  /\ \E ofClass, ofSubclass \in [Storage -> Vals] :
       slots = << ofClass, ofSubclass, << >> >>
  /\ out = NoAccess
  /\ NoAnnotations

NextAccess ==
  \/ TokenGet
  \/ TokenSet
  \/ DirectGet
  \/ DirectSet

SpecAccess == InitAccess /\ [][NextAccess]_vars

(* ======================================================================= *)
(* Contexts and metadata                                                   *)
(* ======================================================================= *)
\* the value a decorator defines: its own, as meta1 defines 1 and meta2 2
ValueOf(d) == << 0, d.owner, d.pos >>

\* a value defined by a decorator of the parent class
Inherited == << 1 >>

\* Static element metadata and class decorator metadata is on the
\* constructor, non-static element metadata on the prototype.
SideOf(c, d) ==
  IF d.owner = 0 \/ c.elems[d.owner].static THEN "constructor" ELSE "prototype"

\* the name is only kept when it has no metadata yet
SetPublic_KeepFirst(public, n, v) ==
  [m \in (DOMAIN public) \cup {n} |->
     IF m \in DOMAIN public THEN public[m] ELSE v]

\* the record holds nothing but the name defined last
SetPublic_Alone(public, n, v) == [m \in {n} |-> v]

\* public[name] = value: a later definition overwrites the existing value
SetPublic(public, n, v) ==
  [m \in (DOMAIN public) \cup {n} |-> IF m = n THEN v ELSE public[m]]

\* the private metadata of an element: one entry for each private element,
\* in the order the elements were first given one
SetPrivate(private_, o, v) ==
  IF \E i \in DOMAIN private_ : private_[i].owner = o
  THEN [i \in DOMAIN private_ |->
          IF private_[i].owner = o THEN [owner |-> o, value |-> v]
          ELSE private_[i]]
  ELSE Append(private_, [owner |-> o, value |-> v])

\* context.setMetadata(key, value) of decorator d, on the object of the key
SetMetadata(obj, nm, priv, d, v) ==
  CASE d.owner = 0 -> [obj EXCEPT !.constructor = v]
    [] d.owner \in priv ->
         [obj EXCEPT !.private = SetPrivate(obj.private, d.owner, v)]
    [] OTHER ->
         [obj EXCEPT !.public = SetPublic(obj.public, nm[d.owner], v)]

\* an element written after another public element of its name, on the same
\* side, defines nothing
Define_FirstOfName(md, c, nm, priv, d, sets) ==
  IF /\ d.owner > 1
     /\ \E o \in 1..(d.owner - 1) :
          /\ nm[o] = nm[d.owner]
          /\ c.elems[o].static = c.elems[d.owner].static
          /\ {o, d.owner} \cap priv = {}
  THEN md
  ELSE [md EXCEPT !.own =
          [s \in Sides |-> [k \in Keys |->
             IF s = SideOf(c, d) /\ k \in sets
             THEN SetMetadata(md.own[s][k], nm, priv, d, ValueOf(d))
             ELSE md.own[s][k]]]]

\* The decorator defines its value under each key of `sets`: all metadata
\* defined under a symbol is gathered across the class into the metadata
\* object of its side, which is the class's own.
Define(md, c, nm, priv, d, sets) ==
  [md EXCEPT !.own =
     [s \in Sides |-> [k \in Keys |->
        IF s = SideOf(c, d) /\ k \in sets
        THEN SetMetadata(md.own[s][k], nm, priv, d, ValueOf(d))
        ELSE md.own[s][k]]]]

\* the parent's value is found first
PublicOf_SuperFirst(md, s, k, n) ==
  IF n \in DOMAIN md.super[s][k].public THEN md.super[s][k].public[n]
  ELSE IF n \in DOMAIN md.own[s][k].public THEN md.own[s][k].public[n]
  ELSE Absent

\* C.prototype[Symbol.metadata][key].public[name]: the `public` object
\* inherits from the parent's `public` object
PublicOf(md, s, k, n) ==
  IF n \in DOMAIN md.own[s][k].public THEN md.own[s][k].public[n]
  ELSE IF n \in DOMAIN md.super[s][k].public THEN md.super[s][k].public[n]
  ELSE Absent

\* C[Symbol.metadata][key].constructor, inherited from the parent class
ConstructorOf(md, k) ==
  IF md.own["constructor"][k].constructor # Absent
  THEN md.own["constructor"][k].constructor
  ELSE md.super["constructor"][k].constructor

ValuesOf(entries) == [i \in DOMAIN entries |-> entries[i].value]

\* the class's private metadata comes first
PrivateOf_OwnFirst(md, s, k) ==
  ValuesOf(md.own[s][k].private) \o ValuesOf(md.super[s][k].private)

\* The `private` array inherits by appending the private metadata of the
\* class to the private metadata array of the parent.
PrivateOf(md, s, k) ==
  ValuesOf(md.super[s][k].private) \o ValuesOf(md.own[s][k].private)

\* The context object of decorator d: kind and name; for class elements
\* isStatic and isPrivate; `access` and addInitializer where they apply.
Context(c, nm, priv, d) ==
  IF d.owner = 0
  THEN [kind |-> "class", name |-> ClassName, isStatic |-> FALSE,
        isPrivate |-> FALSE, members |-> {"addInitializer"}]
  ELSE [kind |-> c.elems[d.owner].kind, name |-> nm[d.owner],
        isStatic |-> c.elems[d.owner].static, isPrivate |-> d.owner \in priv,
        members |-> {"isStatic", "isPrivate"}
                    \cup (IF HasAccess(priv, d) THEN {"access"} ELSE {})
                    \cup (IF HasAddInitializer(c, d)
                          THEN {"addInitializer"} ELSE {})]

\* what a decorator can leave of its context: every property reassigned
Tampered(ctx) ==
  [kind |-> "changed", name |-> ClassName, isStatic |-> ~ctx.isStatic,
   isPrivate |-> ~ctx.isPrivate,
   members |-> {"access", "addInitializer"} \ ctx.members]

\* one context object serves all calls
NewContext_Reused(handed, c, nm, priv, d) ==
  IF handed = << >> THEN Context(c, nm, priv, d)
  ELSE handed[Len(handed)].left

\* each call is passed a new object literal
NewContext(handed, c, nm, priv, d) == Context(c, nm, priv, d)

\* what the body of a decorator does with its context: nothing, or it
\* defines metadata under a key, or it reassigns the properties of the
\* context
Bodies ==
  { [sets |-> k, tampers |-> t] :
      k \in {{}} \cup { {x} : x \in Keys }, t \in BOOLEAN }

\* A decorator is called with its context: it may reassign the properties
\* of the context and call context.setMetadata; it returns nothing.
Decorate(d, sets, tampers) ==
  /\ CallDecorator(d, "nothing", FALSE)
  /\ LET ctx == NewContext(contexts, cls, names, private, d) IN
       contexts' = Append(contexts,
                     [received |-> ctx,
                      left |-> IF tampers THEN Tampered(ctx) ELSE ctx,
                      defined |-> sets])
  /\ metadata' = Define(metadata, cls, names, private, d, sets)
  /\ UNCHANGED << cls, evaluated, installed, ranLog, bound, names, sub,
                  instances, newLog, private, slots, out, builtins,
                  privateNames, other, restricted, friends >>

DecorateElement ==
  /\ pc = "CallingElements"
  /\ idx <= Len(ElementCallOrder(cls))
  /\ \E b \in Bodies :
       /\ b.tampers => b.sets = {}
       /\ Decorate(ElementCallOrder(cls)[idx], b.sets, b.tampers)

DecorateClass ==
  /\ pc = "CallingClass"
  /\ idx <= Len(ClassCallOrder(cls))
  /\ \E b \in Bodies :
       /\ b.tampers => b.sets = {}
       /\ Decorate(ClassCallOrder(cls)[idx], b.sets, b.tampers)

\* the classes with two elements, methods or fields
MetadataShapes ==
  { c \in [elems : [1..2 -> ElementShape], nClassDecs : 0..MaxChain] :
      SumDecs(c.elems, Len(c.elems)) + c.nClassDecs <= MaxDecs }

\* the metadata of a parent class with a static and a non-static public
\* element of the first name, private elements and a class decorator
InheritedMetadata ==
  [s \in Sides |-> [k \in Keys |->
     [constructor |-> IF s = "constructor" THEN Inherited ELSE Absent,
      public |-> [n \in {0} |-> Inherited],
      private |-> << [owner |-> 0, value |-> Inherited] >>]]]

\* The class once its decorator expressions are evaluated: the elements
\* have names, the first one the first name, some are private; the class may extend a class that has
\* metadata. No decorator is called yet.
InitMetadata ==
  /\ cls \in MetadataShapes
  /\ pc = "CallingElements"
  /\ idx = 1
  /\ evaluated = EvaluationOrder(cls)
  /\ value = [o \in 0..Len(cls.elems) |-> Base]
  /\ installed = [o \in 0..Len(cls.elems) |-> NotDefined]
  /\ initializers = << >>
  /\ callLog = << >>
  /\ ranLog = << >>
  /\ exposedTo = {}
  /\ bound = FALSE
  /\ err = NoError
  /\ sub = << >>
  /\ instances = << >>
  /\ newLog = << >>
  /\ private \in SUBSET (1..Len(cls.elems))
  /\ slots = << >>
  /\ out = NoAccess
  /\ names \in { nm \in [1..Len(cls.elems) -> Names] : nm[1] = 0 }
  /\ contexts = << >>
  /\ metadata \in { [NoMetadata EXCEPT !.super = m] :
                      m \in {NoMetadata.super, InheritedMetadata} }
  /\ builtins = NoBuiltins
  /\ privateNames = NoPrivateNames
  /\ NoLibraries

NextMetadata ==
  \/ DecorateElement
  \/ CallingElementsDone
  \/ ApplyElementDecorators
  \/ DecorateClass
  \/ CallingClassDone
  \/ ApplyClassDecorators

SpecMetadata == InitMetadata /\ [][NextMetadata]_vars

(* ======================================================================= *)
(* Built-in decorators                                                     *)
(* ======================================================================= *)
\* the built-in decorators a decorator on a field bottoms out in
FieldBuiltins == {"register", "initialize"}

\* Decorator Record { [[BuiltinDecorator]], [[Arguments]] }
DecoratorRecords == [builtin : FieldBuiltins, arg : Vals]

\* every @initialize is taken
CanInitialize_Always(callbacks, o) == TRUE

\* only one @initialize call may be made per field
CanInitialize(callbacks, o) == callbacks[o] = << >>

\* @initialize: the field definition Record is annotated with the callback
\* passed; a second @initialize on the same field is an error.
ApplyInitialize ==
  /\ pc = "ApplyingBuiltins"
  /\ idx <= Len(builtins.records)
  /\ builtins.records[idx].builtin = "initialize"
  /\ LET o == ElementCallOrder(cls)[idx].owner IN
       IF CanInitialize(builtins.callbacks, o)
       THEN /\ builtins' = [builtins EXCEPT !.callbacks[o] =
                              Append(@, builtins.records[idx].arg)]
            /\ idx' = idx + 1
            /\ UNCHANGED << pc, err >>
       ELSE /\ Abort("DuplicateInitializationError")
            /\ UNCHANGED << builtins, idx >>
  /\ UNCHANGED << cls, evaluated, value, installed, initializers, callLog,
                  ranLog, exposedTo, bound, sub, instances, newLog, private,
                  slots, out, names, contexts, metadata, privateNames, other,
                  restricted, friends >>

\* @register: a class-wide list of calls to register is constructed
ApplyRegister ==
  /\ pc = "ApplyingBuiltins"
  /\ idx <= Len(builtins.records)
  /\ builtins.records[idx].builtin = "register"
  /\ builtins' = [builtins EXCEPT !.registered =
                    Append(@, [owner |-> ElementCallOrder(cls)[idx].owner,
                               arg |-> builtins.records[idx].arg])]
  /\ idx' = idx + 1
  /\ UNCHANGED << cls, pc, err, evaluated, value, installed, initializers,
                  callLog, ranLog, exposedTo, bound, sub, instances, newLog,
                  private, slots, out, names, contexts, metadata,
                  privateNames, other, restricted, friends >>

\* the classes whose elements are fields that are not static
FieldShapes ==
  { c \in ClassShapes :
      /\ c.nClassDecs = 0
      /\ \A o \in DOMAIN c.elems :
           c.elems[o].kind = "field" /\ ~c.elems[o].static }

\* The decorator lists of the fields are evaluated into lists of built-in
\* decorators, one Decorator Record for each decorator written; none is
\* applied yet.
InitBuiltins ==
  /\ cls \in FieldShapes
  /\ pc = "ApplyingBuiltins"
  /\ idx = 1
  /\ evaluated = EvaluationOrder(cls)
  /\ value = [o \in 0..Len(cls.elems) |-> Base]
  /\ installed = [o \in 0..Len(cls.elems) |-> NotDefined]
  /\ initializers = << >>
  /\ callLog = << >>
  /\ ranLog = << >>
  /\ exposedTo = {}
  /\ bound = FALSE
  /\ err = NoError
  /\ sub = << >>
  /\ instances = << >>
  /\ newLog = << >>
  /\ private = {}
  /\ slots = << >>
  /\ out = NoAccess
  /\ names = << >>
  /\ contexts = << >>
  /\ metadata = NoMetadata
  /\ privateNames = NoPrivateNames
  /\ NoLibraries
  /\ \E r \in [1..Len(ElementCallOrder(cls)) -> DecoratorRecords] :
       builtins = [records |-> r,
                   callbacks |-> [o \in 1..Len(cls.elems) |-> << >>],
                   registered |-> << >>]

NextBuiltins ==
  \/ ApplyInitialize
  \/ ApplyRegister

SpecBuiltins == InitBuiltins /\ [][NextBuiltins]_vars

(* ======================================================================= *)
(* Private Names                                                           *)
(* ======================================================================= *)
\* the Private Name of a description that was used before is found again
PrivateName_ByDescription(created, description) ==
  IF \E i \in DOMAIN created : created[i] = description
  THEN CHOOSE i \in DOMAIN created : created[i] = description
  ELSE Len(created) + 1

\* decorators.PrivateName([name]) returns a new opaque private name,
\* optionally with the given descriptive name
PrivateName(created, description) == Len(created) + 1

\* the Private Names that define an element
Used(pn) == { pn.defined[i].name : i \in DOMAIN pn.defined }

\* the class elements that are defined with a Private Name
Declared(pn) ==
  { << pn.defined[i].class, pn.defined[i].element >> : i \in DOMAIN pn.defined }

\* Private Name `name`, of the description given, defines element e of
\* class k
Defines(pn, name, description, k, e) ==
  [pn EXCEPT
     !.created = IF name \in DOMAIN pn.created THEN @
                 ELSE Append(@, description),
     !.defined = Append(@, [name |-> name, class |-> k, element |-> e])]

\* the rest of the program is left as it is
NamesOnly ==
  UNCHANGED << cls, pc, idx, evaluated, value, installed, initializers,
               callLog, ranLog, exposedTo, bound, err, sub, instances, newLog,
               private, slots, out, names, contexts, metadata, builtins,
               other, restricted, friends >>

\* class k { #x ... }: the declaration is bound to a Private Name of its own
DeclarePrivate ==
  /\ Len(privateNames.created) < MaxElems
  /\ \E k \in 0..1, e \in 1..MaxElems, description \in Names :
       /\ << k, e >> \notin Declared(privateNames)
       /\ privateNames' =
            Defines(privateNames,
                    PrivateName(privateNames.created, description),
                    description, k, e)
  /\ NamesOnly

\* let storage = decorators.PrivateName(): a decorator creates a name
CreatePrivateName ==
  /\ Len(privateNames.created) < MaxElems
  /\ \E description \in Names :
       privateNames' = [privateNames EXCEPT
                          !.created = Append(@, description)]
  /\ NamesOnly

\* A decorator of class k adds a field descriptor whose key is a Private
\* Name: a particular private name may be used just once.
AddPrivateField ==
  /\ \E k \in 0..1, e \in 1..MaxElems, name \in DOMAIN privateNames.created :
       /\ << k, e >> \notin Declared(privateNames)
       /\ privateNames' =
            IF name \in Used(privateNames)
            THEN [privateNames EXCEPT !.error = "TypeError"]
            ELSE Defines(privateNames, name, privateNames.created[name], k, e)
  /\ NamesOnly

\* two class definitions, none evaluated yet
InitNames ==
  /\ cls = [elems |-> << >>, nClassDecs |-> 0]
  /\ pc = Steps[1]
  /\ idx = 1
  /\ evaluated = << >>
  /\ value = [o \in 0..Len(cls.elems) |-> Base]
  /\ installed = [o \in 0..Len(cls.elems) |-> NotDefined]
  /\ initializers = << >>
  /\ callLog = << >>
  /\ ranLog = << >>
  /\ exposedTo = {}
  /\ bound = FALSE
  /\ err = NoError
  /\ sub = << >>
  /\ instances = << >>
  /\ newLog = << >>
  /\ private = {}
  /\ slots = << >>
  /\ out = NoAccess
  /\ NoAnnotations

NextNames ==
  \/ DeclarePrivate
  \/ CreatePrivateName
  \/ AddPrivateField

SpecNames == InitNames /\ [][NextNames]_vars

(* ======================================================================= *)
(* Two class definitions                                                   *)
(* ======================================================================= *)
\* the evaluation of the class definition in progress: its class, its step
\* and the lists and values the desugaring keeps for the class
\* (`let initializersForMyElement = []`, `let initializersForM = []`)
Run ==
  [cls |-> cls, pc |-> pc, idx |-> idx, evaluated |-> evaluated,
   value |-> value, installed |-> installed, initializers |-> initializers,
   callLog |-> callLog, ranLog |-> ranLog, exposedTo |-> exposedTo,
   bound |-> bound, err |-> err]

\* a class definition not yet begun
NotBegun(c) ==
  [cls |-> c, pc |-> Steps[1], idx |-> 1, evaluated |-> << >>,
   value |-> [o \in 0..Len(c.elems) |-> Base],
   installed |-> [o \in 0..Len(c.elems) |-> NotDefined],
   initializers |-> << >>, callLog |-> << >>, ranLog |-> << >>,
   exposedTo |-> {}, bound |-> FALSE, err |-> NoError]

\* one list of initializers for every class of the program
Resume_SharedInitializers(r) ==
  /\ cls' = r.cls
  /\ pc' = r.pc
  /\ idx' = r.idx
  /\ evaluated' = r.evaluated
  /\ value' = r.value
  /\ installed' = r.installed
  /\ initializers' = initializers
  /\ callLog' = r.callLog
  /\ ranLog' = r.ranLog
  /\ exposedTo' = r.exposedTo
  /\ bound' = r.bound
  /\ err' = r.err

\* the evaluation of a class definition goes on where it was left, with the
\* lists and values of its own class
Resume(r) ==
  /\ cls' = r.cls
  /\ pc' = r.pc
  /\ idx' = r.idx
  /\ evaluated' = r.evaluated
  /\ value' = r.value
  /\ installed' = r.installed
  /\ initializers' = r.initializers
  /\ callLog' = r.callLog
  /\ ranLog' = r.ranLog
  /\ exposedTo' = r.exposedTo
  /\ bound' = r.bound
  /\ err' = r.err

\* the program turns to its other class definition: before, after or in the
\* middle of this one (a decorator or an initializer is user code, and may
\* evaluate a class definition itself)
Switch ==
  /\ other # Absent
  /\ other' = Run
  /\ Resume(other)
  /\ UNCHANGED << sub, instances, newLog, private, slots, out, names,
                  contexts, metadata, builtins, privateNames, restricted,
                  friends >>

\* the first class of a program of two: a method or a field, static or not,
\* with one decorator, and one class decorator
TwoShapes ==
  { c \in ClassShapes :
      /\ Len(c.elems) = 1
      /\ c.elems[1].kind \in {"method", "field"}
      /\ c.elems[1].nDecs = 1
      /\ c.nClassDecs = 1 }

\* the second class: `class C { @bound m() {} }`
OtherShapes ==
  { c \in ClassShapes :
      /\ Len(c.elems) = 1
      /\ c.elems[1].kind = "method"
      /\ ~c.elems[1].static
      /\ c.elems[1].nDecs = 1
      /\ c.nClassDecs = 0 }

InitTwo ==
  /\ cls \in TwoShapes
  /\ pc = Steps[1]
  /\ idx = 1
  /\ evaluated = << >>
  /\ value = [o \in 0..Len(cls.elems) |-> Base]
  /\ installed = [o \in 0..Len(cls.elems) |-> NotDefined]
  /\ initializers = << >>
  /\ callLog = << >>
  /\ ranLog = << >>
  /\ exposedTo = {}
  /\ bound = FALSE
  /\ err = NoError
  /\ other \in { NotBegun(c) : c \in OtherShapes }
  /\ sub = << >>
  /\ instances = << >>
  /\ newLog = << >>
  /\ private = {}
  /\ slots = << >>
  /\ out = NoAccess
  /\ names = << >>
  /\ contexts = << >>
  /\ metadata = NoMetadata
  /\ builtins = NoBuiltins
  /\ privateNames = NoPrivateNames
  /\ restricted = Absent
  /\ friends = Absent

NextTwo ==
  \/ Next
  \/ Switch

SpecTwo == InitTwo /\ [][NextTwo]_vars

(* ======================================================================= *)
(* Decorators restricted to public elements                                *)
(* ======================================================================= *)
\* the key of an element: a property key or, for a #name, a Private Name
\* object; the keys of the class are numbered 0..MaxValue, the one a
\* decorator makes itself is numbered MaxValue + 1
ElementKeys == [private : BOOLEAN, id : Names]

\* typeof element.key === "object"
IsPrivateName(key) == key.private

\* assert(...) failed: the call ends with an error and returns nothing
AssertionError == << "AssertionError" >>

\* an element descriptor as the class declares it
ClassElements == [key : ElementKeys, writable : {TRUE}]

\* the class descriptors handed to a class decorator: the elements of the
\* class in order, no key declared twice
ClassDescriptors ==
  { [kind |-> "class", elements |-> es] :
      es \in { s \in UNION { [1..n -> ClassElements] : n \in 0..MaxElems } :
                 \A i, j \in DOMAIN s : s[i].key = s[j].key => i = j } }

\* the descriptors handed to an element decorator
ElementDescriptors ==
  [kind : {"method", "field", "accessor"}, key : ElementKeys,
   writable : {TRUE}]

\* the elements a class decorator can return: those it was handed, as they
\* are or changed, and elements of its own, under a property key or a
\* Private Name it made
ReturnableElements(handed) ==
  { handed.elements[i] : i \in DOMAIN handed.elements } \cup
  { [handed.elements[i] EXCEPT !.writable = FALSE] :
      i \in DOMAIN handed.elements } \cup
  { [key |-> [private |-> p, id |-> MaxValue + 1], writable |-> TRUE] :
      p \in BOOLEAN }

\* what the wrapped class decorator may return for the descriptor handed
ClassReturns(handed) ==
  { [kind |-> "class", elements |-> es] :
      es \in UNION { [1..n -> ReturnableElements(handed)] : n \in 0..MaxElems } }

\* every element is handed to the decorator
Split_Nothing(elements) ==
  [elements |-> elements,
   privateElements |-> SelectSeq(elements, LAMBDA e : IsPrivateName(e.key))]

\* let arr = typeof element.key === "object" ? privateElements : elements;
\* arr[arr.length] = element;
Split(elements) ==
  [elements |-> SelectSeq(elements, LAMBDA e : ~IsPrivateName(e.key)),
   privateElements |-> SelectSeq(elements, LAMBDA e : IsPrivateName(e.key))]

\* the private elements put in front of what the decorator returned
Rejoin_PrivateFirst(result, privateElements) ==
  [result EXCEPT !.elements = privateElements \o result.elements]

\* for (...) resultElements[resultElements.length] = privateElements[i];
\* return { ...result, elements: resultElements };
Rejoin(result, privateElements) ==
  [result EXCEPT !.elements = result.elements \o privateElements]

\* restrict(decorator)(descriptor), case "class": the decorator is called
\* with the public elements, the private elements are appended to what it
\* returns
RestrictClass ==
  /\ restricted.result = Absent
  /\ restricted.descriptor.kind = "class"
  /\ LET split == Split(restricted.descriptor.elements)
         handed == [restricted.descriptor EXCEPT !.elements = split.elements]
     IN  \E result \in ClassReturns(handed) :
           restricted' = [restricted EXCEPT
                            !.handed = handed,
                            !.returned = result,
                            !.result = Rejoin(result, split.privateElements)]
  /\ UNCHANGED << cls, pc, idx, evaluated, value, installed, initializers,
                  callLog, ranLog, exposedTo, bound, err, sub, instances,
                  newLog, private, slots, out, names, contexts, metadata,
                  builtins, privateNames, other, friends >>

\* case "method", case "field":
\*   assert(typeof descriptor.key !== "object"); return decorator(descriptor);
RestrictElement ==
  /\ restricted.result = Absent
  /\ restricted.descriptor.kind \in {"method", "field"}
  /\ IF IsPrivateName(restricted.descriptor.key)
     THEN restricted' = [restricted EXCEPT !.result = AssertionError]
     ELSE \E w \in BOOLEAN :
            LET result == [restricted.descriptor EXCEPT !.writable = w]
            IN  restricted' = [restricted EXCEPT
                                 !.handed = restricted.descriptor,
                                 !.returned = result,
                                 !.result = result]
  /\ UNCHANGED << cls, pc, idx, evaluated, value, installed, initializers,
                  callLog, ranLog, exposedTo, bound, err, sub, instances,
                  newLog, private, slots, out, names, contexts, metadata,
                  builtins, privateNames, other, friends >>

\* default: assert(false);
RestrictOther ==
  /\ restricted.result = Absent
  /\ restricted.descriptor.kind \notin {"class", "method", "field"}
  /\ restricted' = [restricted EXCEPT !.result = AssertionError]
  /\ UNCHANGED << cls, pc, idx, evaluated, value, installed, initializers,
                  callLog, ranLog, exposedTo, bound, err, sub, instances,
                  newLog, private, slots, out, names, contexts, metadata,
                  builtins, privateNames, other, friends >>

\* a decorator wrapped by `restrict` is about to be called with a descriptor
InitRestrict ==
  /\ cls = [elems |-> << >>, nClassDecs |-> 0]
  /\ pc = Steps[1]
  /\ idx = 1
  /\ evaluated = << >>
  /\ value = [o \in 0..Len(cls.elems) |-> Base]
  /\ installed = [o \in 0..Len(cls.elems) |-> NotDefined]
  /\ initializers = << >>
  /\ callLog = << >>
  /\ ranLog = << >>
  /\ exposedTo = {}
  /\ bound = FALSE
  /\ err = NoError
  /\ sub = << >>
  /\ instances = << >>
  /\ newLog = << >>
  /\ private = {}
  /\ slots = << >>
  /\ out = NoAccess
  /\ names = << >>
  /\ contexts = << >>
  /\ metadata = NoMetadata
  /\ builtins = NoBuiltins
  /\ privateNames = NoPrivateNames
  /\ other = Absent
  /\ friends = Absent
  /\ \E d \in ClassDescriptors \cup ElementDescriptors :
       restricted = [descriptor |-> d, handed |-> Absent, returned |-> Absent,
                     result |-> Absent]

NextRestrict ==
  \/ RestrictClass
  \/ RestrictElement
  \/ RestrictOther

SpecRestrict == InitRestrict /\ [][NextRestrict]_vars

(* ======================================================================= *)
(* Friend decorators: the map of Private Names by class                    *)
(* ======================================================================= *)
\* Objects are numbered: Null is no object, 1 stands for the built-in
\* prototypes every class constructor ends its prototype chain with, 2 and
\* 3 are classes that extend nothing, 2k and 2k+1 are the classes that
\* extend class k.
Null == 0

Classes == 2..(2 * MaxChain + 1)

\* Object.getPrototypeOf(klass)
Prototype(klass) == klass \div 2

\* new PrivateNameMap: the WeakMap #map holds no class
EmptyMap ==
  [classes |-> {}, entries |-> [k \in Classes |-> [s \in Names |-> Undefined]]]

\* only the map of the class itself is looked up
PrivateNameMapGet_OwnOnly(map, klass, keyString) ==
  IF klass \in map.classes THEN map.entries[klass][keyString] ELSE Undefined

RECURSIVE PrivateNameMapGet(_, _, _)
\* PrivateNameMap.get(klass, keyString): the key is looked up in the map of
\* the class, then of its prototype, and so on until null
PrivateNameMapGet(map, klass, keyString) ==
  IF klass = Null THEN Undefined
  ELSE IF klass \notin map.classes
       THEN PrivateNameMapGet(map, Prototype(klass), keyString)
       ELSE IF map.entries[klass][keyString] = Undefined
            THEN PrivateNameMapGet(map, Prototype(klass), keyString)
            ELSE map.entries[klass][keyString]

\* PrivateNameMap.set(klass, keyString, key): the map of the class is made
\* when the class has none, and the key stored in it
PrivateNameMapSet(map, klass, keyString, key) ==
  [classes |-> map.classes \cup {klass},
   entries |-> [map.entries EXCEPT ![klass][keyString] = << key >>]]

\* the variables the friend decorators leave alone
FriendsOnly ==
  UNCHANGED << cls, pc, idx, evaluated, value, installed, initializers,
               callLog, ranLog, exposedTo, bound, err, sub, instances, newLog,
               private, slots, out, names, contexts, metadata, builtins,
               privateNames, other, restricted >>

\* exposeMap.set(klass, key.description, key) with a Private Name made for
\* the call
MapSet ==
  /\ Len(friends.sets) < MaxElems
  /\ \E klass \in Classes, keyString \in Names :
       LET key == Len(friends.sets) + 1
       IN  friends' = [friends EXCEPT
                         !.exposeMap = PrivateNameMapSet(friends.exposeMap,
                                         klass, keyString, key),
                         !.sets = Append(friends.sets,
                                    [klass |-> klass, keyString |-> keyString,
                                     key |-> key])]
  /\ FriendsOnly

\* exposeMap.get(klass, keyString)
MapGet ==
  /\ \E klass \in Classes, keyString \in Names :
       friends' = [friends EXCEPT
                     !.got = << [klass |-> klass, keyString |-> keyString,
                                 after |-> Len(friends.sets),
                                 key |-> PrivateNameMapGet(friends.exposeMap,
                                           klass, keyString)] >>]
  /\ FriendsOnly

\* no class, no object, no call of a decorator
NoProgram ==
  /\ cls = [elems |-> << >>, nClassDecs |-> 0]
  /\ pc = Steps[1]
  /\ idx = 1
  /\ evaluated = << >>
  /\ value = [o \in 0..Len(cls.elems) |-> Base]
  /\ installed = [o \in 0..Len(cls.elems) |-> NotDefined]
  /\ initializers = << >>
  /\ callLog = << >>
  /\ ranLog = << >>
  /\ exposedTo = {}
  /\ bound = FALSE
  /\ err = NoError
  /\ sub = << >>
  /\ instances = << >>
  /\ newLog = << >>
  /\ private = {}
  /\ slots = << >>
  /\ out = NoAccess
  /\ names = << >>
  /\ contexts = << >>
  /\ metadata = NoMetadata
  /\ builtins = NoBuiltins
  /\ privateNames = NoPrivateNames
  /\ other = Absent
  /\ restricted = Absent

InitMap ==
  /\ NoProgram
  /\ friends = [exposeMap |-> EmptyMap, sets |-> << >>, got |-> << >>]

NextMap ==
  \/ MapSet
  \/ MapGet

SpecMap == InitMap /\ [][NextMap]_vars

(* ======================================================================= *)
(* Friend decorators: FriendKey                                            *)
(* ======================================================================= *)
\* the keys of the elements `@key.expose` is written on: a property key or
\* a Private Name, which has a description; Private Names of different
\* classes may have the same description
FriendKeys == [private : BOOLEAN, description : Names, name : 1..MaxElems]

\* a name exposed again replaces the Private Name exposed first
FriendKeyExpose_Overwriting(names_, key) ==
  IF ~IsPrivateName(key)
  THEN [names |-> names_, error |-> "TypeError"]
  ELSE [names |-> [names_ EXCEPT ![key.description] = << key >>],
        error |-> "none"]

\* FriendKey.expose(descriptor), with key = descriptor.key:
\*   if (typeof key !== "object") throw new TypeError(...)
\*   if (this.#names.has(string)) throw new TypeError(...)
\*   this.#names.set(string, key)
FriendKeyExpose(names_, key) ==
  IF ~IsPrivateName(key)
  THEN [names |-> names_, error |-> "TypeError"]
  ELSE IF names_[key.description] # Absent
       THEN [names |-> names_, error |-> "TypeError"]
       ELSE [names |-> [names_ EXCEPT ![key.description] = << key >>],
             error |-> "none"]

\* FriendKey.get(receiver, name), FriendKey.set(receiver, name, value):
\*   let key = this.#names.get(name);
\*   if (key === undefined) throw new TypeError;
\* and then the Private Name found is used on the receiver
FriendKeyLookup(names_, name) ==
  IF names_[name] = Absent
  THEN [key |-> Absent, error |-> "TypeError"]
  ELSE [key |-> names_[name], error |-> "none"]

\* @key.expose on an element of a class being defined
Expose ==
  /\ Len(friends.exposed) < MaxElems
  /\ \E key \in FriendKeys :
       LET done == FriendKeyExpose(friends.names, key)
       IN  friends' = [names |-> done.names,
                       exposed |-> Append(friends.exposed, key),
                       last |-> [op |-> "expose", name |-> key.description,
                                 key |-> << key >>, before |-> friends.names,
                                 error |-> done.error]]
  /\ FriendsOnly

\* key.get(receiver, name), key.set(receiver, name, value) and
\* key.call(receiver, name, ...args), which starts with this.get
Use(op) ==
  /\ \E name \in Names :
       LET found == FriendKeyLookup(friends.names, name)
       IN  friends' = [friends EXCEPT
                         !.last = [op |-> op, name |-> name, key |-> found.key,
                                   before |-> friends.names,
                                   error |-> found.error]]
  /\ FriendsOnly

FriendGet == Use("get")

FriendSet == Use("set")

FriendCall == Use("call")

\* let key = new FriendKey
InitFriendKey ==
  /\ NoProgram
  /\ friends = [names |-> [s \in Names |-> Absent], exposed |-> << >>,
                last |-> [op |-> "none", name |-> 0, key |-> Absent,
                          before |-> [s \in Names |-> Absent],
                          error |-> "none"]]

NextFriendKey ==
  \/ Expose
  \/ FriendGet
  \/ FriendSet
  \/ FriendCall

SpecFriendKey == InitFriendKey /\ [][NextFriendKey]_vars

(* ======================================================================= *)
(* Friend decorators: @expose, @inherit, @abstract, @override              *)
(* ======================================================================= *)
\* class SuperClass { ... }, class SubA extends SuperClass { ... },
\* class SubB extends SuperClass { ... }
SuperClass == 2

FriendClasses == {SuperClass, 2 * SuperClass, 2 * SuperClass + 1}

\* the private element a class declares, if it declares one: `@expose #s = v`,
\* `@inherit #s`, `@abstract #s` or `@override #s() { ... }`
Declarations ==
  [decorator : {"expose", "inherit", "abstract", "override"},
   description : Names]

\* the Private Name of the element class k declares, and the one
\* `PrivateName()` makes for the `@abstract` element of class k
OwnKey(k) == k

InternalKey(k) == 0 - k

\* typeof superKey === undefined, typeof internalKey === undefined: typeof
\* gives a string, and no string is identical to the value undefined
IsTypeofUndefined(v) == FALSE

\* register(klass) of @override:
\*   internalKey = privateNameMap.get(klass, keyString);
\* no binding named privateNameMap exists: evaluating it throws
OverrideRegister(fr, klass, keyString) ==
  [exposeMap |-> fr.exposeMap, abstractMap |-> fr.abstractMap,
   key |-> Undefined, error |-> "ReferenceError"]

\* register(klass) of @inherit:
\*   superKey = exposeMap.get(klass, keyString);
\*   if (typeof superKey === undefined) throw new TypeError(...)
InheritRegister(fr, klass, keyString) ==
  LET superKey == PrivateNameMapGet(fr.exposeMap, klass, keyString)
  IN  [exposeMap |-> fr.exposeMap, abstractMap |-> fr.abstractMap,
       key |-> superKey,
       error |-> IF IsTypeofUndefined(superKey) THEN "TypeError" ELSE "none"]

\* the static hook of the decorated element of a class, run with the class:
\* @expose: exposeMap.set(klass, key.description, key)
\* @abstract: abstractMap.set(klass, key.description, internalKey)
Register(fr, klass, decl) ==
  CASE decl.decorator = "expose" ->
         [exposeMap |-> PrivateNameMapSet(fr.exposeMap, klass,
                          decl.description, OwnKey(klass)),
          abstractMap |-> fr.abstractMap,
          key |-> << OwnKey(klass) >>, error |-> "none"]
    [] decl.decorator = "abstract" ->
         [exposeMap |-> fr.exposeMap,
          abstractMap |-> PrivateNameMapSet(fr.abstractMap, klass,
                            decl.description, InternalKey(klass)),
          key |-> << InternalKey(klass) >>, error |-> "none"]
    [] decl.decorator = "inherit" ->
         InheritRegister(fr, klass, decl.description)
    [] decl.decorator = "override" ->
         OverrideRegister(fr, klass, decl.description)

\* the class is defined without error
IsFriendDefined(fr, k) ==
  fr.classes[k] # Absent /\ fr.classes[k][1].error = "none"

\* a class definition is evaluated: the hook of its decorated element is run;
\* a hook that throws ends the class definition with the error
DefineClass ==
  /\ \E k \in FriendClasses :
       /\ friends.classes[k] = Absent
       /\ k # SuperClass => IsFriendDefined(friends, Prototype(k))
       /\ IF friends.program[k] = Absent
          THEN friends' = [friends EXCEPT
                             !.classes[k] = << [key |-> Undefined,
                                                error |-> "none"] >>]
          ELSE LET done == Register(friends, k, friends.program[k][1])
               IN  friends' = [friends EXCEPT
                                 !.exposeMap = done.exposeMap,
                                 !.abstractMap = done.abstractMap,
                                 !.classes[k] = << [key |-> done.key,
                                                    error |-> done.error] >>]
  /\ FriendsOnly

\* the classes whose constructors run for an instance of class k
FriendChain(k) == IF k = SuperClass THEN {k} ELSE {k, Prototype(k)}

\* no field under the key, a field holding a value, the method of an
\* @abstract element holding emptySentinel
NoField == [kind |-> "none", v |-> 0]

EmptySentinel == [kind |-> "emptySentinel", v |-> 0]

\* new k(): the object gets the field of each @expose element of its
\* classes, with its initial value, and the internal method of each
\* @abstract element, which is emptySentinel when the element has no body
FriendNew ==
  /\ friends.object = Absent
  /\ \E k \in FriendClasses, initial \in Vals :
       /\ IsFriendDefined(friends, k)
       /\ friends' = [friends EXCEPT !.object =
            << [class |-> k,
                fields |->
                  [key \in { OwnKey(c) : c \in FriendClasses } \cup
                           { InternalKey(c) : c \in FriendClasses } |->
                     IF \E c \in FriendChain(k) :
                          /\ friends.program[c] # Absent
                          /\ friends.program[c][1].decorator = "expose"
                          /\ key = OwnKey(c)
                     THEN [kind |-> "value", v |-> initial]
                     ELSE IF \E c \in FriendChain(k) :
                               /\ friends.program[c] # Absent
                               /\ friends.program[c][1].decorator = "abstract"
                               /\ key = InternalKey(c)
                          THEN EmptySentinel
                          ELSE NoField]] >>]
  /\ FriendsOnly

\* key.get(this) of a Private Name, or of what was stored as one
KeyGet(object, key) ==
  IF key = Undefined \/ object.fields[key[1]].kind = "none"
  THEN [error |-> "TypeError", result |-> NoField]
  ELSE [error |-> "none", result |-> object.fields[key[1]]]

\* key.set(this, value) of a Private Name: the field of the object is written
KeySet(object, key, v) ==
  IF key = Undefined \/ object.fields[key[1]].kind = "none"
  THEN [error |-> "TypeError", fields |-> object.fields]
  ELSE [error |-> "none",
        fields |-> [object.fields EXCEPT ![key[1]] =
                      [kind |-> "value", v |-> v]]]

\* set(value) { set.set(this, value); } of an @inherit element: no binding
\* named set exists where the accessor is made, evaluating it throws
InheritSet(object, key, v) ==
  [error |-> "ReferenceError", fields |-> object.fields]

\* the classes whose methods run on the object and declare an element with
\* one of the decorators
Declaring(decorators) ==
  { k \in FriendClasses :
      /\ friends.object # Absent
      /\ k \in FriendChain(friends.object[1].class)
      /\ friends.program[k] # Absent
      /\ friends.program[k][1].decorator \in decorators }

\* this.#s read in a method of the class that declares it:
\* @expose: the field; @inherit: get() { return superKey.get(this); };
\* @abstract: get() { return internalKey.get(this); }
ReadPrivate ==
  /\ \E k \in Declaring({"expose", "inherit", "abstract"}) :
       LET got == KeyGet(friends.object[1], friends.classes[k][1].key)
       IN  friends' = [friends EXCEPT
                         !.last = [op |-> "read", class |-> k, v |-> 0,
                                   error |-> got.error,
                                   result |-> got.result]]
  /\ FriendsOnly

\* this.#s = v written in a method of the class that declares it
WritePrivate ==
  /\ \E k \in Declaring({"expose", "inherit"}), v \in Vals :
       LET set == IF friends.program[k][1].decorator = "expose"
                  THEN KeySet(friends.object[1],
                                           friends.classes[k][1].key, v)
                  ELSE InheritSet(friends.object[1],
                                  friends.classes[k][1].key, v)
       IN  friends' = [friends EXCEPT
                         !.object[1].fields = set.fields,
                         !.last = [op |-> "write", class |-> k, v |-> v,
                                   error |-> set.error, result |-> NoField]]
  /\ FriendsOnly

\* bar() { return this.#foo(); } of the class that declares @abstract #foo:
\* the getter returns what the internal method holds, and it is called
CallAbstract ==
  /\ \E k \in Declaring({"abstract"}) :
       LET got == KeyGet(friends.object[1], friends.classes[k][1].key)
       IN  friends' = [friends EXCEPT
                         !.last = [op |-> "call", class |-> k, v |-> 0,
                                   error |-> IF got.result.kind = "body"
                                             THEN "none" ELSE "TypeError",
                                   result |-> got.result]]
  /\ FriendsOnly

\* a program of three classes, each declaring one decorated private element
\* or none; no class is defined yet
InitFriends ==
  /\ NoProgram
  /\ \E program \in [FriendClasses ->
                       {Absent} \cup { << d >> : d \in Declarations }] :
       friends = [program |-> program,
                  exposeMap |-> EmptyMap,
                  abstractMap |-> EmptyMap,
                  classes |-> [k \in FriendClasses |-> Absent],
                  object |-> Absent,
                  last |-> [op |-> "none", class |-> 0, v |-> 0,
                            error |-> "none", result |-> NoField]]

NextFriends ==
  \/ DefineClass
  \/ FriendNew
  \/ ReadPrivate
  \/ WritePrivate
  \/ CallAbstract

SpecFriends == InitFriends /\ [][NextFriends]_vars

(* ======================================================================= *)
(* Properties                                                              *)
(* ======================================================================= *)
\* the step the definition is in, or was in when it was aborted
At == IF pc = "Aborted" THEN err.at ELSE pc

Range(s) == { s[i] : i \in DOMAIN s }

Elements == 1..Len(cls.elems)

CallsOf(o) == SelectSeq(callLog, LAMBDA k : k.owner = o)

\* what a call hands on: its return value, or its argument if it returned
\* nothing
Passed(k) == IF k.ret = "nothing" THEN k.arg ELSE k.res

ElementsCalled == At \notin {"Evaluating", "CallingElements"}

ElementsApplied == ElementsCalled /\ At # "ApplyingElements"

IsClassInitializer(r) == r.op = "initializer" /\ r.level = "class"

(* ---------------------------- C1 --------------------------------------- *)
OnceEachInsideOut(o) ==
  LET calls == CallsOf(o)
      n == cls.elems[o].nDecs
  IN  /\ Len(calls) = n
      /\ \A i \in 1..n : calls[i].pos = n + 1 - i

Original(o) == IF cls.elems[o].kind = "field" THEN Undefined ELSE Base

Threaded(o) ==
  LET calls == CallsOf(o)
  IN  \A i \in DOMAIN calls :
        calls[i].arg = IF i = 1 THEN Original(o) ELSE Passed(calls[i - 1])

Final(o) ==
  LET calls == CallsOf(o)
  IN  IF calls = << >> THEN Original(o) ELSE Passed(calls[Len(calls)])

\* C1 as stated: once the element decorators have been called, every element
\* (fields included) had each decorator of its chain called exactly once,
\* innermost first, each receiving what the previous one handed on, and the
\* element defined on the class is what the outermost one handed on.
C1_Original ==
  ElementsCalled =>
    \A o \in Elements :
      /\ OnceEachInsideOut(o)
      /\ Threaded(o)
      /\ (ElementsApplied /\ cls.elems[o].kind # "field") => installed[o] = Final(o)

\* C1 amended: every element had each decorator of its chain called exactly
\* once, innermost first; for an element that is not a field each call
\* received what the previous one handed on and the element defined on the
\* class is what the outermost one handed on (the value as written when all
\* returned nothing); every decorator of a field received undefined.
C1_ChainInsideOut ==
  ElementsCalled =>
    \A o \in Elements :
      /\ OnceEachInsideOut(o)
      /\ IF cls.elems[o].kind = "field"
         THEN \A k \in Range(CallsOf(o)) : k.arg = Undefined
         ELSE /\ Threaded(o)
              /\ ElementsApplied => installed[o] = Final(o)

\* chain [g, f] on a method, f innermost, both returning a replacement:
\* the committed method is base-f-g
C1_Witness ==
  /\ bound
  /\ \E o \in Elements :
       /\ cls.elems[o].kind = "method"
       /\ cls.elems[o].nDecs = 2
       /\ installed[o] = << 2, 1 >>

NothingDone ==
  /\ \A o \in Owners : installed[o] = NotDefined
  /\ ranLog = << >>
  /\ exposedTo = {}

PhaseRank(phase) ==
  CASE phase = "Evaluating" -> 1
    [] phase = "Calling" -> 2
    [] phase = "Applying" -> 3
    [] phase = "Committed" -> 4
    [] OTHER -> 5

StageRank(step) ==
  CASE step = "Evaluating" -> 1
    [] step = "CallingElements" -> 2
    [] step = "ApplyingElements" -> 3
    [] step = "CallingClass" -> 4
    [] step \in {"ApplyingClass", "StaticElementInitializers", "StaticFields",
                 "ClassInitializers"} -> 5
    [] step = "Committed" -> 6
    [] OTHER -> 7

\* the phase a step belongs to; with no class decorator to call, the run
\* is not calling anything after the element decorators are applied
PhaseOf(step) ==
  IF step = "CallingClass" /\ cls.nClassDecs = 0 THEN "Applying" ELSE Phase(step)

TextBefore(a, b) ==
  \/ a.owner < b.owner
  \/ a.owner = b.owner /\ a.pos # 0 /\ (b.pos = 0 \/ a.pos < b.pos)

\* every decorator expression and property name written in the class
Written ==
  UNION { { Occ(o, p) : p \in (IF o = 0 THEN 1 ELSE 0) ..
                               (IF o = 0 THEN cls.nClassDecs ELSE cls.elems[o].nDecs) } :
          o \in Owners }

\* C5: the decorator expressions are evaluated in textual order, none left
\* out; nothing is called and no initializer added while they are
\* evaluated; and when a decorator is called, every decorator expression of
\* the class has been evaluated.
C5_EvaluatedInTextOrderFirst ==
  /\ \A i, j \in DOMAIN evaluated : i < j => TextBefore(evaluated[i], evaluated[j])
  /\ evaluated # << >> =>
       \A x \in Written :
         TextBefore(x, evaluated[Len(evaluated)]) => x \in Range(evaluated)
  /\ At = "Evaluating" => (callLog = << >> /\ initializers = << >>)
  /\ callLog # << >> => Written \subseteq Range(evaluated)

C5_Witness ==
  /\ callLog # << >>
  /\ cls.nClassDecs > 0
  /\ cls.elems[Len(cls.elems)].nDecs > 0

(* ---------------------------- C6 --------------------------------------- *)
\* C6: when a decorator expression does not resolve to a callable, the
\* definition is aborted while evaluating, no decorator of the class has
\* been called, and none will be.
C6_ResolutionErrorBeforeAnyCall ==
  err.name = "ResolutionError" =>
    /\ pc = "Aborted"
    /\ err.at = "Evaluating"
    /\ callLog = << >>
    /\ initializers = << >>
    /\ ranLog = << >>

\* the second element's decorator does not resolve, after the first
\* element's one did
C6_Witness ==
  /\ err.name = "ResolutionError"
  /\ \E x \in Range(evaluated) : x.owner = 1 /\ x.pos > 0

(* ---------------------------- C7 --------------------------------------- *)
\* C7: no element decorator is called after a class decorator, and when a
\* class decorator is called every element had its whole chain called.
C7_ClassDecoratorsLast ==
  /\ \A i, j \in DOMAIN callLog :
       (i < j /\ callLog[i].owner = 0) => callLog[j].owner = 0
  /\ (\E k \in Range(callLog) : k.owner = 0) =>
       \A o \in Elements : Len(CallsOf(o)) = cls.elems[o].nDecs

C7_Witness ==
  /\ \E k \in Range(callLog) : k.owner = 0
  /\ \E k \in Range(callLog) : k.owner = 2

(* ---------------------------- C8 --------------------------------------- *)
\* C8: element decorators are called in the order of their elements in the
\* program, whether the elements are static or not.
C8_ElementsInSourceOrder ==
  \A i, j \in DOMAIN callLog :
    (i < j /\ callLog[i].owner > 0 /\ callLog[j].owner > 0) =>
      callLog[i].owner <= callLog[j].owner

\* a static element's decorator called before that of a later instance
\* element
C8_Witness ==
  \E i, j \in DOMAIN callLog :
    /\ i < j
    /\ callLog[i].owner = 1 /\ cls.elems[1].static
    /\ callLog[j].owner = 2 /\ ~cls.elems[2].static

(* ---------------------------- C9 --------------------------------------- *)
\* C9 as stated: when a static field is defined, every class initializer
\* has been run.
C9_Original ==
  \A i \in DOMAIN ranLog :
    ranLog[i].op = "staticField" =>
      \A k \in Range(initializers) :
        k.level = "class" =>
          \E j \in 1..(i - 1) :
            IsClassInitializer(ranLog[j]) /\ ranLog[j].pos = k.pos

\* C9 amended: when a class initializer is run, every static field of the
\* class has already been executed and defined.
C9_StaticFieldsBeforeClassInitializers ==
  \A i \in DOMAIN ranLog :
    IsClassInitializer(ranLog[i]) =>
      \A f \in Elements :
        (cls.elems[f].kind = "field" /\ cls.elems[f].static) =>
          \E j \in 1..(i - 1) : ranLog[j].op = "staticField" /\ ranLog[j].owner = f

C9_Witness ==
  \E i, j \in DOMAIN ranLog :
    i < j /\ ranLog[i].op = "staticField" /\ IsClassInitializer(ranLog[j])

(* ---------------------------- C10 -------------------------------------- *)
\* C10: once a class initializer has run, the class is fully defined: its
\* methods are defined, the class decorators are applied and all its static
\* fields are assigned.
C10_ClassInitializersAfterDefinition ==
  (\E r \in Range(ranLog) : IsClassInitializer(r)) =>
    /\ installed[0] # NotDefined
    /\ \A o \in Elements :
         (cls.elems[o].kind # "field" \/ cls.elems[o].static) =>
           installed[o] # NotDefined

C10_Witness ==
  /\ \E r \in Range(ranLog) : IsClassInitializer(r)
  /\ \E o \in Elements : cls.elems[o].kind = "field" /\ cls.elems[o].static
  /\ \E o \in Elements : cls.elems[o].kind = "method"

(* ---------------------------- C11 -------------------------------------- *)
IsStaticElementInitializer(r) == r.op = "initializer" /\ r.level = "static"

\* the initializers of one level that have run, in the order they ran
RanOfLevel(level) ==
  SelectSeq(ranLog, LAMBDA r : r.op = "initializer" /\ r.level = level)

\* every element that is not a field is defined on the class
MethodsDefined ==
  \A o \in Elements : cls.elems[o].kind # "field" => installed[o] # NotDefined

C12_ClassInitializersAfterStaticElementInitializers ==
  /\ \A i, j \in DOMAIN ranLog :
       (i < j /\ IsClassInitializer(ranLog[i])) =>
         ~IsStaticElementInitializer(ranLog[j])
  /\ (\E r \in Range(ranLog) : IsClassInitializer(r)) =>
       Len(RanOfLevel("static")) = Len(OfLevel(initializers, "static"))

C12_Witness ==
  \E i, j \in DOMAIN ranLog :
    /\ i < j
    /\ IsStaticElementInitializer(ranLog[i])
    /\ IsClassInitializer(ranLog[j])

(* ---------------------------- C13 -------------------------------------- *)
\* C13: addInitializer only records: while decorators are evaluated or
\* called no initializer has run, an initializer that ran was added before
\* and runs only once the element decorators are applied, and no
\* instance-level initializer runs during the class definition.
C13_InitializersOnlyRecordedWhileCalling ==
  /\ Phase(At) \in {"Evaluating", "Calling"} => ranLog = << >>
  /\ ranLog # << >> => (ElementsApplied /\ MethodsDefined)
  /\ \A r \in Range(ranLog) :
       r.op = "initializer" =>
         /\ r.level # "instance"
         /\ \E k \in Range(initializers) :
              k.level = r.level /\ k.owner = r.owner /\ k.pos = r.pos

\* initializers of an element and of the class are recorded, the class
\* decorators are still being called, and none has run
C13_Witness ==
  /\ pc = "CallingClass"
  /\ \E k \in Range(initializers) : k.level = "static"
  /\ \E k \in Range(initializers) : k.level = "class"
  /\ ranLog = << >>

(* ---------------------------- the definition as a whole ---------------- *)
\* what the decorators called were seen to do
SeenBehaviour ==
  [n \in DOMAIN callLog |->
     [ret |-> callLog[n].ret,
      adds |-> \E k \in Range(initializers) :
                 k.owner = callLog[n].owner /\ k.pos = callLog[n].pos]]

\* every class definition that completes step by step ends in the state
\* `Defined` gives for it: the programs SpecNew starts from are those Spec
\* ends in
CompletedAsDefined == bound => IsDefined(cls, SeenBehaviour)

(* ---------------------------- C14 -------------------------------------- *)
\* the initializers of class k run with object i as receiver, in order
InitializersRunOn(i, k) ==
  SelectSeq(newLog, LAMBDA r : r.this = i /\ r.op = "initializer" /\ r.class = k)

SameInitializer(r, k) == r.owner = k.owner /\ r.pos = k.pos

\* the initializers the decorators of non-static elements added
InstanceLevel == OfLevel(initializers, "instance")

C15_ClassAndStaticInitializersOncePerDefinition ==
  /\ \A k \in Range(initializers) :
       k.level \in {"class", "static"} =>
         Cardinality({ j \in DOMAIN ranLog :
                         /\ ranLog[j].op = "initializer"
                         /\ ranLog[j].level = k.level
                         /\ SameInitializer(ranLog[j], k) }) = 1
  /\ \A r \in Range(newLog) : r.level = "instance"

\* a class with a class initializer and a static-element initializer, an
\* instance of it and an instance of its subclass
C15_Witness ==
  /\ \E k \in Range(initializers) : k.level = "class"
  /\ \E k \in Range(initializers) : k.level = "static"
  /\ \E i \in DOMAIN instances : instances[i] = 0
  /\ \E i \in DOMAIN instances : instances[i] = 1

(* ---------------------------- C16 -------------------------------------- *)
OnceOn(i, k, inits) ==
  \A x \in Range(inits) :
    Cardinality({ j \in DOMAIN newLog :
                    /\ newLog[j].this = i
                    /\ newLog[j].op = "initializer"
                    /\ newLog[j].class = k
                    /\ SameInitializer(newLog[j], x) }) = 1

ByToken == out.op \in {"access.get", "access.set"}

\* a decorator called after the one that got the token replaced the element
ReplacedLater(n) ==
  \E m \in DOMAIN callLog :
    m > n /\ callLog[m].owner = callLog[n].owner /\ callLog[m].ret = "replacement"

\* C18: an access through context.access to a private accessor or method
\* uses the accessor or method that the last decorator of the element
\* handed on, whichever decorator the access object was given to; when a
\* later decorator replaced the element, that is not what the decorator
\* holding the access object was called with.
C18_AccessIsLateBound ==
  (ByToken /\ out.error = "none" /\ cls.elems[out.owner].kind # "field") =>
    /\ out.result.via = Final(out.owner)
    /\ ReplacedLater(out.token) =>
         /\ out.result.via # callLog[out.token].arg
         /\ out.result.via[Len(out.result.via)] < callLog[out.token].pos

\* the access object given to the inner decorator of a private accessor
\* reads an instance after the outer decorator replaced the accessor
C18_Witness ==
  /\ out.op = "access.get"
  /\ out.error = "none"
  /\ cls.elems[out.owner].kind = "accessor"
  /\ ReplacedLater(out.token)

(* ---------------------------- C19 -------------------------------------- *)
\* C19: in every state, for every access object and every object, get and
\* set of the access object do what reading and writing the private
\* element directly do: same value or error, same accessor called, same
\* store afterwards; what an access object read is the value now stored,
\* what it wrote is what a direct read now gives, and after a direct write
\* the access object reads the value written.
C19_AccessEquivalentToDirect ==
  /\ \A n \in Tokens, x \in DOMAIN instances :
       /\ AccessGet(slots, n, x) = PrivateGet(slots, x, callLog[n].owner)
       /\ CanSet(cls, callLog[n].owner) =>
            \A v \in Vals :
              AccessSet(slots, n, x, v) = PrivateSet(slots, x, callLog[n].owner, v)
  /\ (out.op = "access.get" /\ out.error = "none") =>
       out.result = PrivateGet(slots, out.this, out.owner).result
  /\ (out.op = "access.set" /\ out.error = "none") =>
       /\ PrivateGet(slots, out.this, out.owner).result.value = out.v
       /\ out.result.via =
            IF cls.elems[out.owner].kind = "field" THEN Base ELSE installed[out.owner]
  /\ (out.op = "set" /\ out.error = "none") =>
       \A n \in Tokens :
         callLog[n].owner = out.owner =>
           AccessGet(slots, n, out.this).result.value = out.v

\* set of an access object wrote a private auto-accessor that a decorator
\* had replaced, on an instance of the class
C19_Witness ==
  /\ out.op = "access.set"
  /\ out.error = "none"
  /\ instances[out.this] = 0
  /\ cls.elems[out.owner].kind = "accessor"
  /\ installed[out.owner] # Base

(* ---------------------------- C20 -------------------------------------- *)
\* the object was constructed neither by the class nor by its subclass
Foreign(x) == instances[x] > Len(sub)

PublicDefiners(s, k, n) ==
  { i \in DOMAIN contexts :
      /\ k \in contexts[i].defined
      /\ callLog[i].owner > 0
      /\ callLog[i].owner \notin private
      /\ names[callLog[i].owner] = n
      /\ SideOf(cls, callLog[i]) = s }

Last(S) == CHOOSE i \in S : \A j \in S : j <= i

\* the decorators have all been called and applied
Decorated == pc = "StaticElementInitializers"

\* C22: the public metadata read through a class that extends a parent is
\* the parent's overridden by the class's own: a name the class defined
\* metadata for gives the class's value, whether or not the parent has one;
\* a name only the parent defined gives the parent's value; and defining
\* the class never changes the parent's own metadata objects.
C22_PublicInheritsFromParent ==
  /\ [](\A s \in Sides, k \in Keys, n \in Names :
          PublicOf(metadata, s, k, n) =
            IF PublicDefiners(s, k, n) # {}
            THEN ValueOf(callLog[Last(PublicDefiners(s, k, n))])
            ELSE IF n \in DOMAIN metadata.super[s][k].public
                 THEN metadata.super[s][k].public[n]
                 ELSE Absent)
  /\ [][metadata'.super = metadata.super]_vars

\* the class is decorated; under one key it defined the name its parent
\* has metadata for, under the other key only its parent did, and the
\* parent's value is read through the class
C22_Witness ==
  /\ Decorated
  /\ metadata.super = InheritedMetadata
  /\ \E s \in Sides, k, k2 \in Keys :
       /\ PublicDefiners(s, k, 0) # {}
       /\ PublicOf(metadata, s, k, 0) # Inherited
       /\ PublicDefiners(s, k2, 0) = {}
       /\ PublicOf(metadata, s, k2, 0) = Inherited

(* ---------------------------- C23 -------------------------------------- *)
\* the calls of decorators of private element o, on side s, that defined
\* metadata under key k
PrivateDefiners(s, k, o) ==
  { i \in DOMAIN contexts :
      /\ k \in contexts[i].defined
      /\ callLog[i].owner = o
      /\ o \in private
      /\ SideOf(cls, callLog[i]) = s }

\* the private metadata of the first o elements, as they are declared
RECURSIVE OwnPrivateUpTo(_, _, _)
OwnPrivateUpTo(s, k, o) ==
  IF o = 0 THEN << >>
  ELSE IF PrivateDefiners(s, k, o) # {}
       THEN Append(OwnPrivateUpTo(s, k, o - 1),
                   ValueOf(callLog[Last(PrivateDefiners(s, k, o))]))
       ELSE OwnPrivateUpTo(s, k, o - 1)

\* C23: the private metadata read through a class is the private metadata
\* array of its parent followed by the class's own entries, one for each of
\* its private elements that has metadata, in the order the elements are
\* declared; so the entries of ancestors come before those of descendants.
C23_PrivateAppendsToParent ==
  \A s \in Sides, k \in Keys :
    PrivateOf(metadata, s, k) =
      ValuesOf(metadata.super[s][k].private)
        \o OwnPrivateUpTo(s, k, Len(cls.elems))

\* the class is decorated; its parent has private metadata and two private
\* elements of the class have metadata under the same key
C23_Witness ==
  /\ Decorated
  /\ metadata.super = InheritedMetadata
  /\ \E s \in Sides, k \in Keys :
       /\ PrivateDefiners(s, k, 1) # {}
       /\ PrivateDefiners(s, k, 2) # {}
       /\ Len(PrivateOf(metadata, s, k)) = 3

(* ---------------------------- C24 -------------------------------------- *)
\* the calls of class decorators that defined metadata under key k
ClassDefiners(k) ==
  { i \in DOMAIN contexts : k \in contexts[i].defined /\ callLog[i].owner = 0 }

InitializeCalls(o, n) ==
  { i \in 1..n : /\ builtins.records[i].builtin = "initialize"
                 /\ ElementCallOrder(cls)[i].owner = o }

MethodAndFieldShareName ==
  \E o, f \in Elements :
    /\ cls.elems[o].kind = "method"
    /\ cls.elems[f].kind = "field"
    /\ names[o] = names[f]
    /\ cls.elems[o].static = cls.elems[f].static
    /\ {o, f} \cap private = {}

MetadataEntries ==
  UNION { { << s, k, "constructor", 0 >> :
              x \in { y \in {0} : metadata.own[s][k].constructor # Absent } }
          \cup { << s, k, "public", n >> : n \in DOMAIN metadata.own[s][k].public }
          \cup { << s, k, "private", metadata.own[s][k].private[i].owner >> :
                   i \in DOMAIN metadata.own[s][k].private } :
          s \in Sides, k \in Keys }

\* the element decorators have all been called
ApplyingBegun == pc # "CallingElements"

C30_ContextIsFresh ==
  \A n \in DOMAIN contexts :
    contexts[n].received = Context(cls, names, private, Decorators(cls)[n])

\* a decorator reassigned the properties of its context, and the next
\* decorator of the same element was called with the context of the element
C30_Witness ==
  \E n \in DOMAIN contexts :
    /\ n > 1
    /\ callLog[n].owner = callLog[n - 1].owner
    /\ contexts[n - 1].left # contexts[n - 1].received
    /\ contexts[n].received # contexts[n - 1].left

(* ---------------------------- C32 -------------------------------------- *)
\* what `new` ran in the step being taken
NewlyRun(before, after) == SubSeq(after, Len(before) + 1, Len(after))

\* C32: once the class definition is committed it stays committed: what is
\* installed for the class and its elements, the values decorated, the
\* initializers scheduled, the record of what ran during the definition and
\* the metadata never change again; every step left is a construction, and
\* a construction runs only what belongs to the instance: the initializers
\* added by the decorators of non-static elements and the instance fields.
C32_CommittedIsTerminal ==
  [][pc = "Committed" =>
       /\ pc' = "Committed"
       /\ UNCHANGED << cls, installed, value, initializers, callLog, ranLog,
                       exposedTo, metadata, err >>
       /\ Len(instances') = Len(instances) + 1
       /\ \A r \in Range(NewlyRun(newLog, newLog')) :
            /\ r.level = "instance"
            /\ r.op \in {"initializer", "field"}
            /\ r.this = Len(instances')]_vars

\* a class whose definition ran a static or class initializer and scheduled
\* an instance initializer was constructed twice, the initializer replayed
\* for each instance
C32_Witness ==
  /\ pc = "Committed"
  /\ ranLog # << >>
  /\ Len(instances) = 2
  /\ \E k \in Range(initializers) :
       /\ k.level = "instance"
       /\ \A i \in DOMAIN instances :
            \E r \in Range(newLog) :
              r.this = i /\ r.op = "initializer" /\ SameInitializer(r, k)

(* ---------------------------- C31 -------------------------------------- *)
\* how the decorators called by a class definition behaved
BehaviourSeen(r) ==
  [n \in DOMAIN r.callLog |->
     [ret |-> r.callLog[n].ret,
      adds |-> \E k \in Range(r.initializers) :
                 k.owner = r.callLog[n].owner /\ k.pos = r.callLog[n].pos]]

\* what a class definition committed
Outcome(r) ==
  [evaluated |-> r.evaluated, value |-> r.value, callLog |-> r.callLog,
   initializers |-> r.initializers, installed |-> r.installed,
   ranLog |-> r.ranLog, exposedTo |-> r.exposedTo]

\* a committed class definition committed what the definition of its class
\* alone, with decorators behaving the same, commits
AsAlone(r) ==
  r.bound => /\ Outcome(r) = Defined(r.cls, BehaviourSeen(r))
             /\ r.pc = "Committed"
             /\ r.err = NoError

PrivateOnes(elements) == SelectSeq(elements, LAMBDA e : IsPrivateName(e.key))

PublicOnes(elements) == SelectSeq(elements, LAMBDA e : ~IsPrivateName(e.key))

\* C33: a decorator wrapped by `restrict` is never handed a Private Name:
\* the class descriptor it is called with holds the public elements of the
\* class, all of them, in order, and nothing else; and on a method or field
\* whose key is a Private Name the wrapper fails its assertion and the
\* decorator is not called.
C33_RestrictHandsNoPrivateName ==
  /\ restricted.handed # Absent =>
       IF restricted.descriptor.kind = "class"
       THEN /\ restricted.handed.kind = "class"
            /\ restricted.handed.elements =
                 PublicOnes(restricted.descriptor.elements)
            /\ \A i \in DOMAIN restricted.handed.elements :
                 ~IsPrivateName(restricted.handed.elements[i].key)
       ELSE /\ restricted.handed = restricted.descriptor
            /\ ~IsPrivateName(restricted.handed.key)
  /\ ( /\ restricted.result # Absent
       /\ restricted.descriptor.kind \in {"method", "field"}
       /\ IsPrivateName(restricted.descriptor.key) ) =>
       /\ restricted.result = AssertionError
       /\ restricted.handed = Absent

\* a class with a private and a public element went through the wrapper,
\* the decorator was handed one element
C33_Witness ==
  /\ restricted.descriptor.kind = "class"
  /\ restricted.handed # Absent
  /\ PrivateOnes(restricted.descriptor.elements) # << >>
  /\ Len(restricted.handed.elements) = 1

\* the wrapper was called on a private field and failed
C33_WitnessElement ==
  /\ restricted.descriptor.kind = "field"
  /\ IsPrivateName(restricted.descriptor.key)
  /\ restricted.result = AssertionError

(* ---------------------------- C34 -------------------------------------- *)
\* the number of elements of a sequence with the key given
Occurrences(elements, key) ==
  Cardinality({ i \in DOMAIN elements : elements[i].key = key })

\* C34: the class descriptor the wrapper returns is what the wrapped
\* decorator returned followed by the private elements of the class: each
\* private element of the class is there once, as the class declared it,
\* in the order of the class, after every element the decorator returned.
C34_PrivateElementsAppended ==
  ( /\ restricted.result # Absent
    /\ restricted.descriptor.kind = "class" ) =>
    LET original == PrivateOnes(restricted.descriptor.elements)
        returned == restricted.returned.elements
        result == restricted.result.elements
    IN  /\ Len(result) = Len(returned) + Len(original)
        /\ SubSeq(result, 1, Len(returned)) = returned
        /\ SubSeq(result, Len(returned) + 1, Len(result)) = original
        /\ \A i \in DOMAIN original :
             Occurrences(result, original[i].key) = 1

\* the decorator returned a changed element and a private element of its
\* own, the class had a private element
C34_Witness ==
  /\ restricted.result # Absent
  /\ restricted.descriptor.kind = "class"
  /\ PrivateOnes(restricted.descriptor.elements) # << >>
  /\ \E i, j \in DOMAIN restricted.returned.elements :
       /\ ~restricted.returned.elements[i].writable
       /\ IsPrivateName(restricted.returned.elements[j].key)

(* ---------------------------- C39 -------------------------------------- *)
RECURSIVE PrototypeChain(_)
\* the class, its superclass, and so on up to the built-in prototypes
PrototypeChain(klass) ==
  IF klass = Null THEN << >>
  ELSE << klass >> \o PrototypeChain(Prototype(klass))

\* the first n calls of `set` that were made for a class and a description
SetsFor(klass, keyString, n) ==
  SelectSeq(SubSeq(friends.sets, 1, n),
            LAMBDA r : r.klass = klass /\ r.keyString = keyString)

\* the classes of the chain of `klass` a key was set on for the description
\* by the first n calls of `set`, nearest first
Holders(klass, keyString, n) ==
  SelectSeq(PrototypeChain(klass), LAMBDA k : SetsFor(k, keyString, n) # << >>)

\* C39: get(klass, s) returns the key last set, before the call, for s on
\* the nearest class of the prototype chain of klass, klass first, that a key
\* was set on for s:
\* what is set on a subclass shadows what is set on its ancestors, and is
\* seen neither from the ancestors nor from the classes that do not extend
\* it; when no class of the chain has a key for s, get returns undefined.
C39_GetWalksThePrototypeChain ==
  \A i \in DOMAIN friends.got :
    LET g == friends.got[i]
        holders == Holders(g.klass, g.keyString, g.after)
    IN  IF holders = << >>
        THEN g.key = Undefined
        ELSE LET sets == SetsFor(holders[1], g.keyString, g.after)
             IN  g.key = << sets[Len(sets)].key >>

\* a key was set on a class, then on a class extending it; get on the
\* subclass returned the second
C39_Witness ==
  \E i \in DOMAIN friends.got :
    LET g == friends.got[i]
    IN  /\ g.key # Undefined
        /\ Prototype(g.klass) \in Classes
        /\ SetsFor(g.klass, g.keyString, g.after) # << >>
        /\ SetsFor(Prototype(g.klass), g.keyString, g.after) # << >>

\* a key was set on a class only: get on a class extending it returned the
\* key, get on a class not extending it returned undefined
C39_WitnessInherited ==
  \E i \in DOMAIN friends.got :
    LET g == friends.got[i]
    IN  /\ g.key # Undefined
        /\ SetsFor(g.klass, g.keyString, g.after) = << >>

(* ---------------------------- C38 -------------------------------------- *)
\* the Private Names `expose` was called with under the description, in
\* order
ExposedAs(description) ==
  SelectSeq(friends.exposed,
            LAMBDA k : IsPrivateName(k) /\ k.description = description)

\* C38: `expose` on an element that is not private, or on a description
\* already in the map, throws TypeError and leaves the map of names as it
\* was; a description is mapped to one Private Name, the first exposed
\* under it; and get, set and call with a string that was never exposed
\* throw TypeError.
C38_FriendKeyRejects ==
  /\ friends.last.op = "expose" =>
       LET key == friends.last.key[1]
       IN  ( \/ ~IsPrivateName(key)
             \/ friends.last.before[key.description] # Absent ) =>
             /\ friends.last.error = "TypeError"
             /\ friends.names = friends.last.before
  /\ \A s \in Names :
       IF ExposedAs(s) = << >>
       THEN friends.names[s] = Absent
       ELSE friends.names[s] = << ExposedAs(s)[1] >>
  /\ ( /\ friends.last.op \in {"get", "set", "call"}
       /\ ExposedAs(friends.last.name) = << >> ) =>
       friends.last.error = "TypeError"

\* a description was exposed twice, by two Private Names: the second call
\* threw
C38_Witness ==
  /\ friends.last.op = "expose"
  /\ friends.last.error = "TypeError"
  /\ Len(ExposedAs(friends.last.name)) = 2
  /\ ExposedAs(friends.last.name)[1] # ExposedAs(friends.last.name)[2]

\* call with a string never exposed threw, another description being
\* exposed
C38_WitnessCall ==
  /\ friends.last.op = "call"
  /\ friends.last.error = "TypeError"
  /\ \E s \in Names : friends.names[s] # Absent

(* ---------------------------- C35 -------------------------------------- *)
\* class k declares `@inherit #s` and its superclass declares `@expose #s`
InheritsExposed(k) ==
  /\ k \in FriendClasses \ {SuperClass}
  /\ friends.program[k] # Absent
  /\ friends.program[SuperClass] # Absent
  /\ friends.program[k][1].decorator = "inherit"
  /\ friends.program[SuperClass][1].decorator = "expose"
  /\ friends.program[k][1].description =
       friends.program[SuperClass][1].description

\* C35: with `@expose #s` in the superclass and `@inherit #s` in the
\* subclass, a read of #s in the subclass gives the value of the #s of the
\* superclass, and a write of #s in the subclass stores the value there.
\* The write never does: the setter throws ReferenceError.
C35_InheritReadsAndWrites ==
  InheritsExposed(friends.last.class) =>
    /\ friends.last.op = "read" =>
         /\ friends.last.error = "none"
         /\ friends.last.result =
              friends.object[1].fields[OwnKey(SuperClass)]
    /\ friends.last.op = "write" =>
         /\ friends.last.error = "none"
         /\ friends.object[1].fields[OwnKey(SuperClass)] =
              [kind |-> "value", v |-> friends.last.v]

\* the subclass wrote a value to its inherited #s other than the one held:
\* the write threw and the field kept its value
C35_Witness ==
  /\ InheritsExposed(friends.last.class)
  /\ friends.last.op = "write"
  /\ friends.last.error = "ReferenceError"
  /\ friends.object[1].fields[OwnKey(SuperClass)].v # friends.last.v

(* ---------------------------- C36 -------------------------------------- *)
\* class k was evaluated with decorator d on a name that no class of its
\* prototype chain registered in the map
Unregistered(k, d, map) ==
  /\ k \in FriendClasses
  /\ friends.classes[k] # Absent
  /\ friends.program[k] # Absent
  /\ friends.program[k][1].decorator = d
  /\ PrivateNameMapGet(map, k, friends.program[k][1].description) = Undefined

\* C36: the register hook of `@inherit` on a name no class of the chain
\* exposed throws TypeError, and so does the hook of `@override` on a name
\* no ancestor declared abstract. Neither does: the first returns, the
\* second throws ReferenceError.
C36_UnregisteredNameThrowsTypeError ==
  \A k \in FriendClasses :
    /\ Unregistered(k, "inherit", friends.exposeMap) =>
         friends.classes[k][1].error = "TypeError"
    /\ Unregistered(k, "override", friends.abstractMap) =>
         friends.classes[k][1].error = "TypeError"

\* a class with `@inherit` on a name never exposed was defined without
\* error, and a read of the name in it failed later
C36_Witness ==
  /\ Unregistered(friends.last.class, "inherit", friends.exposeMap)
  /\ friends.classes[friends.last.class][1].error = "none"
  /\ friends.last.op = "read"
  /\ friends.last.error = "TypeError"

(* ---------------------------- C37 -------------------------------------- *)
\* class k declares `@override #s` and its superclass `@abstract #s`
OverridesAbstract(k) ==
  /\ k \in FriendClasses \ {SuperClass}
  /\ friends.program[k] # Absent
  /\ friends.program[SuperClass] # Absent
  /\ friends.program[k][1].decorator = "override"
  /\ friends.program[SuperClass][1].decorator = "abstract"
  /\ friends.program[k][1].description =
       friends.program[SuperClass][1].description

\* C37: with `@abstract #s` in the superclass and `@override #s` in its
\* subclasses, each subclass is defined, and the method of the superclass
\* that calls #s on an instance runs the body of the class of the instance.
\* No such subclass is ever defined: the register hook of @override throws.
C37_OverrideDispatches ==
  /\ \A k \in FriendClasses :
       (OverridesAbstract(k) /\ friends.classes[k] # Absent) =>
         friends.classes[k][1].error = "none"
  /\ ( /\ friends.last.op = "call"
       /\ OverridesAbstract(friends.object[1].class) ) =>
       /\ friends.last.error = "none"
       /\ friends.last.result =
            [kind |-> "body", v |-> friends.object[1].class]

\* both subclasses of an abstract class override its method: the
\* evaluation of each ended with ReferenceError
C37_Witness ==
  \A k \in FriendClasses \ {SuperClass} :
    /\ OverridesAbstract(k)
    /\ friends.classes[k] # Absent
    /\ friends.classes[k][1].error = "ReferenceError"

====
